---- MODULE Spec2Model ----
(***************************************************************************)
(* Driplytics ensemble price prediction                                    *)
(* (src/ml_service/ensemble_price_predictor.py).                           *)
(*                                                                         *)
(* Numbers.  Python floats are modelled in fixed point:                    *)
(*   - a candidate price, the retail price and the LLM price are whole     *)
(*     dollars;                                                            *)
(*   - any computed price is in mills (1/1000 dollar), truncated;          *)
(*   - weight and confidence are percents (0.35 is 35, 0.93 is 93), their  *)
(*     product is in 1/10000;                                              *)
(*   - an adjustment factor is per-mille (1.05 is 1050);                   *)
(*   - a value the code rounds with round(x, 2) is in hundredths after     *)
(*     Round2 (cents for a price, 0.01 % for a percentage, 0.01 for the    *)
(*     confidence).                                                        *)
(* None is the record None.  A float that can be a NaN is a record          *)
(* [nan, v]: Flt(v) is the number v, NaN is the NaN.                       *)
(***************************************************************************)
EXTENDS Integers, Sequences, FiniteSets, TLC

VARIABLES
    predictor_instance, \* the module global _predictor_instance: 0 is None
    instances,          \* the EnsemblePricePredictor objects constructed so far
    threads,            \* the get_predictor calls in progress, one per thread
    loaded,             \* EnsemblePricePredictor.loaded
    models,             \* keys of EnsemblePricePredictor.models
    pc,                 \* position of the current predict_best_price call
    data,               \* the request of the current call
    flags,              \* include_sentiment, include_trends, include_groq
    env,                \* the sub-steps of the current call whose collaborator failed
    fetched,            \* the external services the current call has invoked
    ml_predictions,     \* locals of predict_best_price
    prophet_prediction,
    sentiment,
    trends,
    groq_analysis,
    ensemble_result,
    response,           \* what predict_best_price returned
    locals,             \* locals of the last calculate_ensemble_prediction
    call,               \* a direct call of one method: its name and arguments
    ret                 \* what the direct call returned

singletonVars == <<predictor_instance, instances, threads>>

vars == <<singletonVars, loaded, models, pc, data, flags, env, fetched, ml_predictions, prophet_prediction,
          sentiment, trends, groq_analysis, ensemble_result, response, locals,
          call, ret>>

None == [none |-> TRUE]

Flt(x) == [nan |-> FALSE, v |-> x]

NaN == [nan |-> TRUE, v |-> 0]

(***************************************************************************)
(* Bounds of the model.                                                    *)
(***************************************************************************)
\* the candidate prices given to a fusion go up to MaxPriceSteps * 300 dollars
MaxPriceSteps == 2
\* the percentages given to get_recommendation go up to MaxPctSteps * 2.5 %
MaxPctSteps == 32

(***************************************************************************)
(* Program constants.                                                      *)
(***************************************************************************)
PLAUSIBILITY_FACTOR == 5
FALLBACK_PERMILLE == 1100
LLM_CONFIDENCE_MIN == 60
CONFIDENCE_FLOOR == 600
CONFIDENCE_CEILING == 950
SINGLE_SOURCE_CONFIDENCE == 800

(***************************************************************************)
(* Arithmetic helpers.                                                     *)
(***************************************************************************)
IsNaN(x) == x.nan

Max0(x) == IF x > 0 THEN x ELSE 0

\* floor(a * b / c) for a >= 0, b >= 0, c > 0, without forming a * b
MulDiv(a, b, c) == (a \div c) * b + ((a % c) * b) \div c

\* Python's round(x, 2) of a value given in thousandths: the result is in
\* hundredths, ties go to the even neighbour
Round2(m) ==
    LET q == m \div 10
        r == m % 10
    IN  IF r < 5 THEN q
        ELSE IF r > 5 THEN q + 1
        ELSE IF q % 2 = 0 THEN q ELSE q + 1

\* Python's built-in min(a, b) and max(a, b): the first argument is kept
\* unless the second compares smaller (greater); every comparison with a NaN
\* is false
PyLess(a, b) == IF IsNaN(a) \/ IsNaN(b) THEN FALSE ELSE a.v < b.v

PyMin(a, b) == IF PyLess(b, a) THEN b ELSE a

PyMax(a, b) == IF PyLess(a, b) THEN b ELSE a

RECURSIVE SqrtSearch(_, _, _)
SqrtSearch(n, lo, hi) ==
    IF lo >= hi THEN lo
    ELSE LET mid == (lo + hi + 1) \div 2
         IN  IF mid * mid <= n THEN SqrtSearch(n, mid, hi)
             ELSE SqrtSearch(n, lo, mid - 1)

\* floor(sqrt(n)) for 0 <= n < 2^31
ISqrt(n) == SqrtSearch(n, 0, 46340)

\* one more decimal digit of a square root: s.r is the root so far and s.rem
\* the remainder (radicand - r * r) at that scale
SqrtDigit(s) ==
    LET d == CHOOSE x \in 0..9 :
                 /\ 20 * s.r * x + x * x <= 100 * s.rem
                 /\ \/ x = 9
                    \/ 20 * s.r * (x + 1) + (x + 1) * (x + 1) > 100 * s.rem
    IN  [r |-> 10 * s.r + d, rem |-> 100 * s.rem - (20 * s.r * d + d * d)]

\* floor(1000 * sqrt(n))
SqrtMills(n) ==
    LET r0 == ISqrt(n)
    IN  SqrtDigit(SqrtDigit(SqrtDigit([r |-> r0, rem |-> n - r0 * r0]))).r

RECURSIVE SumSeq(_)
SumSeq(s) == IF s = <<>> THEN 0 ELSE Head(s) + SumSeq(Tail(s))

SeqMin(s) == CHOOSE x \in {s[i] : i \in DOMAIN s} : \A j \in DOMAIN s : x <= s[j]

SeqMax(s) == CHOOSE x \in {s[i] : i \in DOMAIN s} : \A j \in DOMAIN s : x >= s[j]

\* n * sum(p^2) - sum(p)^2: n^2 times the population variance of the list
VarianceTimesN2(ps) ==
    Len(ps) * SumSeq([i \in DOMAIN ps |-> ps[i] * ps[i]]) - SumSeq(ps) * SumSeq(ps)

\* numpy.std(ps) (population standard deviation), in mills
NpStd(ps) == SqrtMills(VarianceTimesN2(ps)) \div Len(ps)

\* numpy.std(ps) / numpy.mean(ps) in thousandths; 0.0 / 0.0 is a NaN
\* (numpy warns and does not raise).  std / mean = sqrt(n^2 var) / sum.
CoefficientOfVariation(ps) ==
    IF SumSeq(ps) = 0 THEN NaN
    ELSE Flt(SqrtMills(VarianceTimesN2(ps)) \div SumSeq(ps))

\* 1 - x
OneMinus(x) == IF IsNaN(x) THEN NaN ELSE Flt(1000 - x.v)

\* dict.get(key, default)
DictGet(d, key, default) == IF key \in DOMAIN d THEN d[key] ELSE default

(***************************************************************************)
(* predict_with_ml_models                                                  *)
(***************************************************************************)
ModelNames ==
    {"random_forest", "gradient_boosting", "ridge_regression", "linear_regression"}

\* the static confidence, weight and model_type of each regression model
ModelPrior(name) ==
    CASE name = "random_forest" ->
             [confidence |-> 93, weight |-> 35, model_type |-> "Tree-based Ensemble"]
      [] name = "gradient_boosting" ->
             [confidence |-> 91, weight |-> 30, model_type |-> "Boosted Trees"]
      [] name = "ridge_regression" ->
             [confidence |-> 75, weight |-> 10, model_type |-> "Regularized Linear"]
      [] name = "linear_regression" ->
             [confidence |-> 72, weight |-> 5, model_type |-> "Linear Baseline"]

\* the entry predictions[name] = {...}
Prediction(name, pred) ==
    [name |-> name,
     predicted_price |-> Max0(pred),
     confidence |-> ModelPrior(name).confidence,
     weight |-> ModelPrior(name).weight,
     model_type |-> ModelPrior(name).model_type]

\* the plausibility test without its lower bound
PlausibleNoFloor(pred, retail_est) ==
    pred < retail_est * PLAUSIBILITY_FACTOR

\* the plausibility test with the upper bound included
PlausibleInclusive(pred, retail_est) ==
    pred > 0 /\ pred <= retail_est * PLAUSIBILITY_FACTOR

\* "if ridge_pred > 0 and ridge_pred < retail_est * 5"
Plausible(pred, retail_est) ==
    pred > 0 /\ pred < retail_est * PLAUSIBILITY_FACTOR

\* a tree model (random forest, gradient boosting): emitted whenever loaded
TreePart(mods, name, out) ==
    IF name \in mods THEN <<Prediction(name, out[name].value)>> ELSE <<>>

\* a linear model (ridge, linear): emitted when loaded and plausible
LinearPart(mods, name, out, retail_est) ==
    IF name \in mods /\ ~out[name].raises /\ Plausible(out[name].value, retail_est)
    THEN <<Prediction(name, out[name].value)>>
    ELSE <<>>

\* the try block of the linear models: an exception of scaler.transform or of
\* a predict ends the block, and what was emitted before it stays
LinearBlock(mods, out, scaler_raises, retail_est) ==
    IF scaler_raises THEN <<>>
    ELSE LinearPart(mods, "ridge_regression", out, retail_est)
         \o (IF "ridge_regression" \in mods /\ out["ridge_regression"].raises
             THEN <<>>
             ELSE LinearPart(mods, "linear_regression", out, retail_est))

\* an exception of a tree model's predict is not caught here
MlRaises(mods, out) ==
    \E name \in {"random_forest", "gradient_boosting"} :
        name \in mods /\ out[name].raises

\* predict_with_ml_models(features), features[0][2] being the retail price;
\* out[name] is what models[name].predict does: [raises, value].
\* The dict is the sequence of its entries in insertion order.
PredictWithMlModels(mods, out, scaler_raises, retail_price) ==
    IF MlRaises(mods, out)
    THEN [raised |-> TRUE, predictions |-> <<>>]
    ELSE [raised |-> FALSE,
          predictions |->
              TreePart(mods, "random_forest", out)
              \o TreePart(mods, "gradient_boosting", out)
              \o LinearBlock(mods, out, scaler_raises, retail_price)]

(***************************************************************************)
(* calculate_ensemble_prediction                                           *)
(***************************************************************************)
\* a forecast is fused whenever there is one, a 30-day price of 0 included
ProphetFusedWhenPresent(prophet) == prophet # None

\* "if prophet_prediction and prophet_prediction.get('predicted_price_30d')":
\* None and a price of 0 are both falsy
ProphetFused(prophet) ==
    /\ prophet # None
    /\ DictGet(prophet, "predicted_price_30d", 0) # 0

\* all_predictions weighted by the weight alone
AllPredictionsWeightOnly(ml, prophet) ==
    [i \in DOMAIN ml |->
        [price |-> ml[i].predicted_price, w |-> ml[i].weight * 100]]
    \o (IF ProphetFused(prophet)
        THEN <<[price |-> prophet.predicted_price_30d, w |-> prophet.weight * 100]>>
        ELSE <<>>)

\* all_predictions: (price, weight * confidence) per price-bearing source
AllPredictions(ml, prophet) ==
    [i \in DOMAIN ml |->
        [price |-> ml[i].predicted_price, w |-> ml[i].weight * ml[i].confidence]]
    \o (IF ProphetFused(prophet)
        THEN <<[price |-> prophet.predicted_price_30d,
                w |-> prophet.weight * prophet.confidence]>>
        ELSE <<>>)

TotalWeight(all) == SumSeq([i \in DOMAIN all |-> all[i].w])

\* the base price divided by the nominal total weight 1 instead of total_weight
EnsemblePriceUnnormalised(all, retail_price) ==
    IF TotalWeight(all) > 0
    THEN SumSeq([i \in DOMAIN all |-> all[i].price * all[i].w]) \div 10
    ELSE retail_price * FALLBACK_PERMILLE

\* the fallback without its 10 % markup
EnsemblePriceNoMarkup(all, retail_price) ==
    IF TotalWeight(all) > 0
    THEN LET num == SumSeq([i \in DOMAIN all |-> all[i].price * all[i].w])
             tw == TotalWeight(all)
         IN  (num \div tw) * 1000 + ((num % tw) * 1000) \div tw
    ELSE retail_price * 1000

\* the base ensemble price, in mills
EnsemblePrice(all, retail_price) ==
    IF TotalWeight(all) > 0
    THEN LET num == SumSeq([i \in DOMAIN all |-> all[i].price * all[i].w])
             tw == TotalWeight(all)
         IN  (num \div tw) * 1000 + ((num % tw) * 1000) \div tw
    ELSE retail_price * FALLBACK_PERMILLE

\* the sentiment factor left out
AdjustedPriceTrendsOnly(ensemble_price, sentiment_, trends_) ==
    MulDiv(ensemble_price, trends_.adjustment_factor, 1000)

\* sentiment, then trends
AdjustedPrice(ensemble_price, sentiment_, trends_) ==
    MulDiv(MulDiv(ensemble_price, sentiment_.adjustment_factor, 1000),
           trends_.adjustment_factor, 1000)

\* llm_price, in mills
LlmPrice(groq, final_price) ==
    IF "adjusted_price" \in DOMAIN groq THEN groq.adjusted_price * 1000
    ELSE final_price

\* the LLM blend with "llm_confidence >= 0.6"
BlendLlmInclusive(groq, final_price) ==
    IF groq # None /\ DictGet(groq, "confidence", 50) >= LLM_CONFIDENCE_MIN
    THEN (final_price * 9 + LlmPrice(groq, final_price)) \div 10
    ELSE final_price

\* the LLM blend: "if llm_confidence > 0.6"
BlendLlm(groq, final_price) ==
    IF groq # None /\ DictGet(groq, "confidence", 50) > LLM_CONFIDENCE_MIN
    THEN (final_price * 9 + LlmPrice(groq, final_price)) \div 10
    ELSE final_price

\* price_std taking the 10 % band for two candidates as well
PriceStdOffByOne(predictions_list, final_price) ==
    IF Len(predictions_list) > 2 THEN NpStd(predictions_list)
    ELSE final_price \div 10

\* price_std, in mills
PriceStd(predictions_list, final_price) ==
    IF Len(predictions_list) > 1 THEN NpStd(predictions_list)
    ELSE final_price \div 10

\* overall_confidence without the clamp
OverallConfidenceUnclamped(predictions_list) ==
    IF Len(predictions_list) > 1
    THEN OneMinus(CoefficientOfVariation(predictions_list)).v
    ELSE SINGLE_SOURCE_CONFIDENCE

\* overall_confidence, in thousandths
OverallConfidence(predictions_list) ==
    IF Len(predictions_list) > 1
    THEN PyMax(Flt(CONFIDENCE_FLOOR),
               PyMin(Flt(CONFIDENCE_CEILING),
                     OneMinus(CoefficientOfVariation(predictions_list)))).v
    ELSE SINGLE_SOURCE_CONFIDENCE

\* price_change_pct, in 1/1000 of a percent
PriceChangePct(final_price, retail_price) ==
    IF retail_price > 0
    THEN ((final_price - retail_price * 1000) * 100) \div retail_price
    ELSE 0

Title(name) ==
    CASE name = "random_forest" -> "Random Forest"
      [] name = "gradient_boosting" -> "Gradient Boosting"
      [] name = "ridge_regression" -> "Ridge Regression"
      [] name = "linear_regression" -> "Linear Regression"
      [] OTHER -> name

\* a model_breakdown that lists the LLM only when its price was blended
ModelBreakdownBlendedOnly(ml, prophet, sentiment_, trends_, groq, llm_price) ==
    [i \in DOMAIN ml |->
        [model |-> Title(ml[i].name), predicted_price |-> ml[i].predicted_price * 100]]
    \o (IF ProphetFused(prophet)
        THEN <<[model |-> "Prophet Time Series",
                predicted_price |-> prophet.predicted_price_30d * 100]>>
        ELSE <<>>)
    \o (IF groq # None /\ DictGet(groq, "confidence", 50) > 60
        THEN <<[model |-> "Groq LLM Analysis", predicted_price |-> Round2(llm_price)]>>
        ELSE <<>>)
    \o <<[model |-> "Sentiment Analysis",
          adjustment_factor |-> sentiment_.adjustment_factor],
         [model |-> "Google Trends",
          adjustment_factor |-> trends_.adjustment_factor]>>

\* model_breakdown: the regression models, the time series, the LLM, then
\* sentiment and trends
ModelBreakdown(ml, prophet, sentiment_, trends_, groq, llm_price) ==
    [i \in DOMAIN ml |->
        [model |-> Title(ml[i].name), predicted_price |-> ml[i].predicted_price * 100]]
    \o (IF ProphetFused(prophet)
        THEN <<[model |-> "Prophet Time Series",
                predicted_price |-> prophet.predicted_price_30d * 100]>>
        ELSE <<>>)
    \o (IF groq # None
        THEN <<[model |-> "Groq LLM Analysis", predicted_price |-> Round2(llm_price)]>>
        ELSE <<>>)
    \o <<[model |-> "Sentiment Analysis",
          adjustment_factor |-> sentiment_.adjustment_factor],
         [model |-> "Google Trends",
          adjustment_factor |-> trends_.adjustment_factor]>>

\* the locals when the LLM's price is fused as one more candidate
FusionLocalsLlmFused(ml, prophet, sentiment_, trends_, groq, retail_price) ==
    LET all == AllPredictions(ml, prophet)
               \o (IF groq # None /\ "adjusted_price" \in DOMAIN groq
                   THEN <<[price |-> groq.adjusted_price,
                           w |-> 10 * DictGet(groq, "confidence", 50)]>>
                   ELSE <<>>)
        ensemble_price == EnsemblePrice(all, retail_price)
        final_price == AdjustedPrice(ensemble_price, sentiment_, trends_)
        predictions_list == [i \in DOMAIN all |-> all[i].price]
    IN  [all_predictions |-> all,
         total_weight |-> TotalWeight(all),
         ensemble_price |-> ensemble_price,
         final_price |-> final_price,
         price_std |-> PriceStd(predictions_list, final_price),
         overall_confidence |-> OverallConfidence(predictions_list),
         price_change_pct |-> PriceChangePct(final_price, retail_price),
         model_breakdown |->
             ModelBreakdown(ml, prophet, sentiment_, trends_, groq,
                            IF groq = None THEN 0 ELSE LlmPrice(groq, final_price))]

\* the locals of calculate_ensemble_prediction when it returns
FusionLocals(ml, prophet, sentiment_, trends_, groq, retail_price) ==
    LET all == AllPredictions(ml, prophet)
        ensemble_price == EnsemblePrice(all, retail_price)
        adjusted == AdjustedPrice(ensemble_price, sentiment_, trends_)
        final_price == BlendLlm(groq, adjusted)
        predictions_list == [i \in DOMAIN all |-> all[i].price]
    IN  [all_predictions |-> all,
         total_weight |-> TotalWeight(all),
         ensemble_price |-> ensemble_price,
         final_price |-> final_price,
         price_std |-> PriceStd(predictions_list, final_price),
         overall_confidence |-> OverallConfidence(predictions_list),
         price_change_pct |-> PriceChangePct(final_price, retail_price),
         model_breakdown |->
             ModelBreakdown(ml, prophet, sentiment_, trends_, groq,
                            IF groq = None THEN 0 ELSE LlmPrice(groq, adjusted))]

\* the dict calculate_ensemble_prediction returns
CalculateEnsemblePrediction(ml, prophet, sentiment_, trends_, groq, retail_price) ==
    LET l == FusionLocals(ml, prophet, sentiment_, trends_, groq, retail_price)
    IN  [best_predicted_price |-> Round2(l.final_price),
         price_range |-> [low |-> Round2(l.final_price - l.price_std),
                          mid |-> Round2(l.final_price),
                          high |-> Round2(l.final_price + l.price_std)],
         price_change |-> Round2(l.final_price - retail_price * 1000),
         price_change_percent |-> Round2(l.price_change_pct),
         overall_confidence |-> Round2(l.overall_confidence),
         models_used |-> Len(l.model_breakdown),
         model_breakdown |-> l.model_breakdown]

(***************************************************************************)
(* get_recommendation                                                      *)
(***************************************************************************)
\* the tiers with >= in place of >
GetRecommendationLowerInclusive(price_change_pct, confidence) ==
    LET tier ==
            IF price_change_pct >= 7500
            THEN [action |-> "STRONG BUY", risk_level |-> "Low"]
            ELSE IF price_change_pct >= 4000
            THEN [action |-> "BUY", risk_level |-> "Low-Medium"]
            ELSE IF price_change_pct >= 1500
            THEN [action |-> "CONSIDER BUYING", risk_level |-> "Medium"]
            ELSE IF price_change_pct >= 0
            THEN [action |-> "HOLD", risk_level |-> "Medium"]
            ELSE IF price_change_pct >= -1500
            THEN [action |-> "CAUTION", risk_level |-> "Medium-High"]
            ELSE [action |-> "AVOID", risk_level |-> "High"]
    IN  [action |-> tier.action,
         risk_level |-> tier.risk_level,
         confidence_note |-> ""]

\* the tiers decided on the percentage truncated to a whole percent
GetRecommendationWholePercent(price_change_pct, confidence) ==
    LET whole == (price_change_pct \div 100) * 100
        tier ==
            IF whole > 7500
            THEN [action |-> "STRONG BUY", risk_level |-> "Low"]
            ELSE IF whole > 4000
            THEN [action |-> "BUY", risk_level |-> "Low-Medium"]
            ELSE IF whole > 1500
            THEN [action |-> "CONSIDER BUYING", risk_level |-> "Medium"]
            ELSE IF whole > 0
            THEN [action |-> "HOLD", risk_level |-> "Medium"]
            ELSE IF whole > -1500
            THEN [action |-> "CAUTION", risk_level |-> "Medium-High"]
            ELSE [action |-> "AVOID", risk_level |-> "High"]
    IN  [action |-> tier.action,
         risk_level |-> tier.risk_level,
         confidence_note |-> ""]

\* the low-confidence note from 0.7 down, and a risk tier that a low
\* confidence raises to High
GetRecommendationByConfidence(price_change_pct, confidence) ==
    LET tier ==
            IF price_change_pct > 7500
            THEN [action |-> "STRONG BUY", risk_level |-> "Low"]
            ELSE IF price_change_pct > 4000
            THEN [action |-> "BUY", risk_level |-> "Low-Medium"]
            ELSE IF price_change_pct > 1500
            THEN [action |-> "CONSIDER BUYING", risk_level |-> "Medium"]
            ELSE IF price_change_pct > 0
            THEN [action |-> "HOLD", risk_level |-> "Medium"]
            ELSE IF price_change_pct > -1500
            THEN [action |-> "CAUTION", risk_level |-> "Medium-High"]
            ELSE [action |-> "AVOID", risk_level |-> "High"]
        confidence_note ==
            IF confidence <= 70 THEN "Low confidence - limited historical data"
            ELSE IF confidence > 90 THEN "High confidence prediction"
            ELSE ""
    IN  [action |-> tier.action,
         risk_level |-> IF confidence < 70 THEN "High" ELSE tier.risk_level,
         confidence_note |-> confidence_note]

\* price_change_pct is in 1/100 of a percent, confidence in hundredths
GetRecommendation(price_change_pct, confidence) ==
    LET tier ==
            IF price_change_pct > 7500
            THEN [action |-> "STRONG BUY", risk_level |-> "Low"]
            ELSE IF price_change_pct > 4000
            THEN [action |-> "BUY", risk_level |-> "Low-Medium"]
            ELSE IF price_change_pct > 1500
            THEN [action |-> "CONSIDER BUYING", risk_level |-> "Medium"]
            ELSE IF price_change_pct > 0
            THEN [action |-> "HOLD", risk_level |-> "Medium"]
            ELSE IF price_change_pct > -1500
            THEN [action |-> "CAUTION", risk_level |-> "Medium-High"]
            ELSE [action |-> "AVOID", risk_level |-> "High"]
        confidence_note ==
            IF confidence < 70 THEN "Low confidence - limited historical data"
            ELSE IF confidence > 90 THEN "High confidence prediction"
            ELSE ""
    IN  [action |-> tier.action,
         risk_level |-> tier.risk_level,
         confidence_note |-> confidence_note]

(***************************************************************************)
(* Direct calls of the three methods, on arguments drawn from bounded sets *)
(***************************************************************************)
pipelineVars == <<loaded, models, pc, data, flags, env, fetched, ml_predictions, prophet_prediction,
                  sentiment, trends, groq_analysis, ensemble_result, response>>

\* the singleton exists and no thread is inside get_predictor
SingletonIdle ==
    /\ predictor_instance = 1
    /\ instances = 1
    /\ threads = <<>>

PipelineIdle ==
    /\ SingletonIdle
    /\ loaded = TRUE
    /\ models = {"random_forest", "gradient_boosting"}
    /\ pc = "READY"
    /\ data = None
    /\ flags = None
    /\ env = {}
    /\ fetched = {}
    /\ ml_predictions = <<>>
    /\ prophet_prediction = None
    /\ sentiment = None
    /\ trends = None
    /\ groq_analysis = None
    /\ ensemble_result = None
    /\ response = None

Raises == [raises |-> TRUE, value |-> 0]

Returns(x) == [raises |-> FALSE, value |-> x]

\* what a model's predict can do for a request of the given retail price
TreeOutcomes(retail_price) ==
    {Raises} \cup {Returns(x) : x \in {-50, 300, retail_price * 5, retail_price * 5 + 1}}

LinearOutcomes(retail_price) ==
    {Raises} \cup {Returns(x) : x \in {-50, 0, 300, retail_price * 5 - 1,
                                       retail_price * 5, retail_price * 5 + 1}}

Outcomes(name, retail_price) ==
    IF name \in {"random_forest", "gradient_boosting"}
    THEN TreeOutcomes(retail_price)
    ELSE LinearOutcomes(retail_price)

MlRetailPrices == {220, 1000}

\* a model that is not loaded is never asked: its outcome is fixed
InitMl ==
    /\ PipelineIdle
    /\ locals = None
    /\ ret = None
    /\ \E rp \in MlRetailPrices, mods \in SUBSET ModelNames, sr \in BOOLEAN :
       \E o1 \in Outcomes("random_forest", rp), o2 \in Outcomes("gradient_boosting", rp),
          o3 \in Outcomes("ridge_regression", rp), o4 \in Outcomes("linear_regression", rp) :
          /\ "random_forest" \notin mods => o1 = Raises
          /\ "gradient_boosting" \notin mods => o2 = Raises
          /\ "ridge_regression" \notin mods => o3 = Raises
          /\ "linear_regression" \notin mods => o4 = Raises
          /\ call = [op |-> "predict_with_ml_models",
                     models |-> mods,
                     out |-> [n \in ModelNames |->
                                 CASE n = "random_forest" -> o1
                                   [] n = "gradient_boosting" -> o2
                                   [] n = "ridge_regression" -> o3
                                   [] n = "linear_regression" -> o4],
                     scaler_raises |-> sr,
                     retail_price |-> rp]

CallPredictWithMlModels ==
    /\ call.op = "predict_with_ml_models"
    /\ ret = None
    /\ ret' = PredictWithMlModels(call.models, call.out, call.scaler_raises,
                                  call.retail_price)
    /\ UNCHANGED <<singletonVars, pipelineVars, locals, call>>

NextMl == CallPredictWithMlModels

SpecMl == InitMl /\ [][NextMl]_vars

(***************************************************************************)
(* Direct calls of calculate_ensemble_prediction                           *)
(***************************************************************************)
\* 0, the 280 and 300 of the documented scenario, and multiples of 300
FusionPrices == {0, 280} \cup {300 * k : k \in 1..MaxPriceSteps}

FusionRetailPrices == {0, 220}

\* the entry of a regression model as predict_with_ml_models builds it
Source(name, price) == Prediction(name, price)

\* an entry with weight = confidence = 1
UnitSource(price) ==
    [name |-> "unit", predicted_price |-> price, confidence |-> 100,
     weight |-> 100, model_type |-> "Unit"]

OptionalSource(name) == {<<>>} \cup {<<Source(name, p)>> : p \in FusionPrices}

FusionMlPredictions ==
    {a \o b \o c \o d : a \in OptionalSource("random_forest"),
                        b \in OptionalSource("gradient_boosting"),
                        c \in OptionalSource("ridge_regression"),
                        d \in OptionalSource("linear_regression")}
    \cup {<<UnitSource(p)>> : p \in FusionPrices}

\* what predict_with_prophet returns
ProphetPrediction(price) ==
    [predicted_price_30d |-> price, confidence |-> 85, weight |-> 20,
     model_type |-> "Linear Trend"]

FusionProphetPredictions == {None, ProphetPrediction(0), ProphetPrediction(310)}

SentimentDict(factor, sample_size, source) ==
    [adjustment_factor |-> factor, sample_size |-> sample_size, source |-> source]

TrendsDict(factor, direction) ==
    [adjustment_factor |-> factor, trend_direction |-> direction]

GroqDict(confidence, adjusted_price) ==
    [confidence |-> confidence, adjusted_price |-> adjusted_price,
     model_type |-> "LLM Market Analysis"]

\* an analysis whose "adjusted_price" is the JSON null: json.loads accepts
\* whatever object the LLM wrote, and no field of it is checked
GroqNullPrice(confidence) ==
    [confidence |-> confidence, adjusted_price |-> 0,
     adjusted_price_type |-> "NoneType", model_type |-> "LLM Market Analysis"]

\* sentiment, trends and LLM analysis
FusionAdjustments ==
    {<<SentimentDict(1000, 0, "default"), TrendsDict(1000, "stable"), None>>,
     <<SentimentDict(1050, 12, "reddit"), TrendsDict(980, "falling"), None>>,
     <<SentimentDict(900, 20, "reddit"), TrendsDict(800, "falling"), None>>,
     <<SentimentDict(1000, 0, "default"), TrendsDict(1000, "stable"), GroqDict(80, 400)>>,
     <<SentimentDict(1050, 12, "reddit"), TrendsDict(980, "falling"), GroqDict(60, 400)>>,
     <<SentimentDict(1050, 12, "reddit"), TrendsDict(980, "falling"), GroqDict(61, 400)>>,
     <<SentimentDict(1100, 20, "reddit"), TrendsDict(1200, "rising"),
       [confidence |-> 90, model_type |-> "LLM Market Analysis"]>>,
     <<SentimentDict(1000, 0, "default"), TrendsDict(1000, "stable"),
       [adjusted_price |-> 0, model_type |-> "LLM Market Analysis"]>>}

InitFusion ==
    /\ PipelineIdle
    /\ locals = None
    /\ ret = None
    /\ \E ml \in FusionMlPredictions, pp \in FusionProphetPredictions,
          adj \in FusionAdjustments, rp \in FusionRetailPrices :
          call = [op |-> "calculate_ensemble_prediction",
                  ml_predictions |-> ml,
                  prophet_prediction |-> pp,
                  sentiment |-> adj[1],
                  trends |-> adj[2],
                  groq_analysis |-> adj[3],
                  retail_price |-> rp]

CallCalculateEnsemblePrediction ==
    /\ call.op = "calculate_ensemble_prediction"
    /\ ret = None
    /\ ret' = CalculateEnsemblePrediction(call.ml_predictions, call.prophet_prediction,
                                          call.sentiment, call.trends,
                                          call.groq_analysis, call.retail_price)
    /\ locals' = FusionLocals(call.ml_predictions, call.prophet_prediction,
                              call.sentiment, call.trends,
                              call.groq_analysis, call.retail_price)
    /\ UNCHANGED <<singletonVars, pipelineVars, call>>

NextFusion == CallCalculateEnsemblePrediction

SpecFusion == InitFusion /\ [][NextFusion]_vars

(***************************************************************************)
(* Direct calls of get_recommendation                                      *)
(***************************************************************************)
\* in 1/100 of a percent: every 2.5 %, and each threshold with the values
\* 0.01 % below and above it
RecPercents ==
    {250 * k : k \in (0 - MaxPctSteps)..MaxPctSteps}
    \cup {b + d : b \in {-1500, 0, 1500, 4000, 7500}, d \in {-1, 0, 1}}

RecConfidences == {60, 69, 70, 80, 90, 91, 95}

InitRec ==
    /\ PipelineIdle
    /\ locals = None
    /\ ret = None
    /\ \E pct \in RecPercents, c \in RecConfidences :
          call = [op |-> "get_recommendation", price_change_pct |-> pct,
                  confidence |-> c]

CallGetRecommendation ==
    /\ call.op = "get_recommendation"
    /\ ret = None
    /\ ret' = GetRecommendation(call.price_change_pct, call.confidence)
    /\ UNCHANGED <<singletonVars, pipelineVars, locals, call>>

NextRec == CallGetRecommendation

SpecRec == InitRec /\ [][NextRec]_vars

(***************************************************************************)
(* Signal collection                                                       *)
(***************************************************************************)
\* get_sentiment_adjustment on Reddit posts: 1.0 + sentiment_score * 0.10
\* (the score in thousandths)
SentimentFromPosts(sentiment_score, sample_size) ==
    [adjustment_factor |-> 1000 + sentiment_score \div 10,
     sample_size |-> sample_size,
     source |-> "reddit"]

\* the default neutral sentiment
SentimentDefault ==
    [adjustment_factor |-> 1000, sample_size |-> 0, source |-> "default"]

\* the sentiment of a call with include_sentiment = False
SentimentDisabled ==
    [adjustment_factor |-> 1000, sample_size |-> 0, source |-> "disabled"]

\* get_trends_adjustment on the interest data
TrendsFromInterest(current_interest, avg_interest, trend_direction) ==
    LET adjustment_factor ==
            IF trend_direction = "rising"
            THEN 1000 + (current_interest - avg_interest) * 5
            ELSE IF trend_direction = "falling"
            THEN 1000 - (avg_interest - current_interest) * 5
            ELSE 1000
        clamped ==
            IF adjustment_factor < 800 THEN 800
            ELSE IF adjustment_factor > 1200 THEN 1200
            ELSE adjustment_factor
    IN  [adjustment_factor |-> clamped, trend_direction |-> trend_direction]

\* the trends after an exception, and of a call with include_trends = False
TrendsDefault == [adjustment_factor |-> 1000, trend_direction |-> "stable"]

(***************************************************************************)
(* predict_best_price, one request at a time                               *)
(***************************************************************************)
Num(x) == [text |-> FALSE, v |-> x]

\* a retail_price that float() cannot parse
Text == [text |-> TRUE, v |-> 0]

Requests ==
    {[sneaker_name |-> n, retail_price |-> r] :
        n \in {"", "Yeezy"}, r \in {Num(220), Num(0), Text}}
    \cup {[sneaker_name |-> "Yeezy"], [retail_price |-> Num(220)]}
    \cup {[sneaker_name |-> "Yeezy", retail_price |-> r,
           release_date |-> "2023-01-15", shoe_size |-> z,
           region |-> "California"] :
              r \in {Num(220), Num(-10)}, z \in {Num(10), Text}}

Flags ==
    [include_sentiment : BOOLEAN, include_trends : BOOLEAN, include_groq : BOOLEAN]

\* data.get('sneaker_name', data.get('name', ''))
SneakerName == DictGet(data, "sneaker_name", "")

\* float(data.get('retail_price', 220))
RetailPrice == DictGet(data, "retail_price", Num(220)).v

\* a request is also turned down when a field is missing or the retail
\* price is not positive
MalformedRequestStrict ==
    \/ {"sneaker_name", "retail_price", "release_date", "shoe_size", "region"}
           \ DOMAIN data # {}
    \/ data.retail_price.text
    \/ data.retail_price.v <= 0
    \/ data.shoe_size.text

\* float() raises on a text that is no number: float(data.get('retail_price',
\* 220)) and, in prepare_features, float(data.get('shoe_size', 10))
MalformedRequest ==
    \/ DictGet(data, "retail_price", Num(220)).text
    \/ DictGet(data, "shoe_size", Num(10)).text

\* load_models: the two tree models are loaded first, and loaded is set only
\* when they, the encoders and the scaler were all read
LoadedStates ==
    {[loaded |-> TRUE, models |-> {"random_forest", "gradient_boosting"} \cup opt] :
        opt \in SUBSET {"ridge_regression", "linear_regression"}}
    \cup {[loaded |-> FALSE, models |-> m] :
            m \in {{}, {"random_forest"}, ModelNames}}

Init ==
    /\ SingletonIdle
    /\ \E st \in LoadedStates : loaded = st.loaded /\ models = st.models
    /\ pc = "READY"
    /\ data = None
    /\ flags = None
    /\ env = {}
    /\ fetched = {}
    /\ ml_predictions = <<>>
    /\ prophet_prediction = None
    /\ sentiment = None
    /\ trends = None
    /\ groq_analysis = None
    /\ ensemble_result = None
    /\ response = None
    /\ locals = None
    /\ call = None
    /\ ret = None

\* a failure response that still carries an estimate
FailureWithEstimate(error) ==
    [success |-> FALSE, error |-> error,
     prediction |-> [best_predicted_price |-> 0]]

\* {'success': False, 'error': ...}
Failure(error) == [success |-> FALSE, error |-> error]

\* a caller invokes predict_best_price(data, include_sentiment, include_trends,
\* include_groq)
BeginRequest ==
    /\ pc = "READY"
    /\ \E d \in Requests, f \in Flags : data' = d /\ flags' = f
    /\ pc' = "PREPARING"
    /\ UNCHANGED <<singletonVars, loaded, models, env, fetched, ml_predictions, prophet_prediction,
                   sentiment, trends, groq_analysis, ensemble_result, response,
                   locals, call, ret>>

\* the loaded test left out
ModelsNotLoadedIgnored == FALSE

\* "if not self.loaded"
ModelsNotLoaded == ~loaded

\* the loaded test, float(retail_price) and prepare_features
PrepareFeatures ==
    /\ pc = "PREPARING"
    /\ IF ModelsNotLoaded
       THEN /\ response' = Failure("Models not loaded. Run train_model.py first.")
            /\ pc' = "FAILED"
       ELSE IF MalformedRequest
       THEN /\ response' = Failure("could not convert string to float")
            /\ pc' = "FAILED"
       ELSE /\ response' = response
            /\ pc' = "COLLECTING_ML"
    /\ UNCHANGED <<singletonVars, loaded, models, data, flags, env, fetched, ml_predictions,
                   prophet_prediction, sentiment, trends, groq_analysis,
                   ensemble_result, locals, call, ret>>

\* what each model's predict does during a request
RequestOutcomes(name) ==
    CASE name = "random_forest" -> {Raises, Returns(-50), Returns(300)}
      [] name = "gradient_boosting" -> {Raises, Returns(280)}
      [] name = "ridge_regression" -> {Raises, Returns(290), Returns(RetailPrice * 5)}
      [] name = "linear_regression" -> {Raises, Returns(310)}

\* ml_predictions = self.predict_with_ml_models(features)
CollectMl ==
    /\ pc = "COLLECTING_ML"
    /\ \E out \in [ModelNames -> UNION {RequestOutcomes(n) : n \in ModelNames}],
          scaler_raises \in BOOLEAN :
          /\ \A n \in ModelNames :
                /\ out[n] \in RequestOutcomes(n)
                /\ n \notin models => out[n] = Raises
          /\ LET r == PredictWithMlModels(models, out, scaler_raises, RetailPrice)
                 failed == scaler_raises \/ \E n \in models : out[n].raises
             IN  /\ env' = IF failed THEN env \cup {"regression"} ELSE env
                 /\ IF r.raised
                    THEN /\ response' = Failure("predict raised")
                         /\ pc' = "FAILED"
                         /\ ml_predictions' = ml_predictions
                    ELSE /\ response' = response
                         /\ pc' = "COLLECTING_PROPHET"
                         /\ ml_predictions' = r.predictions
    /\ UNCHANGED <<singletonVars, loaded, models, data, flags, fetched, prophet_prediction, sentiment,
                   trends, groq_analysis, ensemble_result, locals, call, ret>>

\* what get_sneaker_price_history does: it raises, finds no forecast, or
\* gives a forecast whose last point has this price
HistoryAnswers == {"raises", "no forecast", "0", "320"}

\* predict_with_prophet(sneaker_name, retail_price)
PredictWithProphet(sneaker_name, answer) ==
    IF sneaker_name = "" THEN None
    ELSE IF answer = "0" THEN ProphetPrediction(0)
    ELSE IF answer = "320" THEN ProphetPrediction(320)
    ELSE None

\* prophet_prediction = self.predict_with_prophet(sneaker_name, retail_price)
CollectProphet ==
    /\ pc = "COLLECTING_PROPHET"
    /\ \E answer \in HistoryAnswers :
          /\ SneakerName = "" => answer = "no forecast"
          /\ prophet_prediction' = PredictWithProphet(SneakerName, answer)
          /\ env' = IF answer = "raises" THEN env \cup {"time_series"} ELSE env
    /\ fetched' = IF SneakerName = "" THEN fetched
                  ELSE fetched \cup {"price_history"}
    /\ pc' = "COLLECTING_SENTIMENT"
    /\ UNCHANGED <<singletonVars, loaded, models, data, flags, ml_predictions, sentiment, trends,
                   groq_analysis, ensemble_result, response, locals, call, ret>>

\* what the Reddit search does: it raises, finds no post, or finds posts
\* (posts is len(posts)) of this overall sentiment (in thousandths)
RedditAnswer(raises, posts, overall_sentiment) ==
    [raises |-> raises, posts |-> posts, overall_sentiment |-> overall_sentiment]

RedditAnswers ==
    {RedditAnswer(TRUE, 0, 0), RedditAnswer(FALSE, 0, 0), RedditAnswer(FALSE, 20, 500)}

\* class LiveSentimentAnalyzer defines clean_text, analyze_text and
\* analyze_reddit_posts, and no analyze_sneaker
AnalyzerHasAnalyzeSneaker == FALSE

\* get_sentiment_adjustment(sneaker_name): with posts found, the call
\* analyzer.analyze_sneaker(...) raises an AttributeError, which the except
\* of the method turns into the default sentiment
GetSentimentAdjustment(answer) ==
    IF ~answer.raises /\ answer.posts > 0 /\ AnalyzerHasAnalyzeSneaker
    THEN SentimentFromPosts(answer.overall_sentiment, answer.posts)
    ELSE SentimentDefault

\* search_sneaker(sneaker_name, limit=20) answers at most 20 posts
RedditSearches ==
    RedditAnswers
    \cup {RedditAnswer(FALSE, n, s) : n \in 1..20, s \in {-1000, -500, 0, 500, 1000}}

InitSentiment ==
    /\ PipelineIdle
    /\ locals = None
    /\ ret = None
    /\ \E answer \in RedditSearches :
          call = [op |-> "get_sentiment_adjustment", sneaker_name |-> "Yeezy",
                  reddit |-> answer]

CallGetSentimentAdjustment ==
    /\ call.op = "get_sentiment_adjustment"
    /\ ret = None
    /\ ret' = GetSentimentAdjustment(call.reddit)
    /\ UNCHANGED <<singletonVars, pipelineVars, locals, call>>

NextSentiment == CallGetSentimentAdjustment

SpecSentiment == InitSentiment /\ [][NextSentiment]_vars

CollectSentiment ==
    /\ pc = "COLLECTING_SENTIMENT"
    /\ IF flags.include_sentiment
       THEN \E answer \in RedditAnswers :
               /\ sentiment' = GetSentimentAdjustment(answer)
               /\ env' = IF \/ answer.raises
                            \/ answer.posts > 0 /\ ~AnalyzerHasAnalyzeSneaker
                         THEN env \cup {"sentiment"}
                         ELSE env
       ELSE /\ sentiment' = SentimentDisabled
            /\ env' = env
    /\ fetched' = IF flags.include_sentiment THEN fetched \cup {"reddit"}
                  ELSE fetched
    /\ pc' = "COLLECTING_TRENDS"
    /\ UNCHANGED <<singletonVars, loaded, models, data, flags, ml_predictions, prophet_prediction,
                   trends, groq_analysis, ensemble_result, response, locals, call, ret>>

\* what Google Trends does: it raises, or gives (current, average, direction)
TrendsAnswers ==
    {[raises |-> TRUE, current |-> 50, avg |-> 50, direction |-> "stable"],
     [raises |-> FALSE, current |-> 80, avg |-> 50, direction |-> "rising"],
     [raises |-> FALSE, current |-> 0, avg |-> 100, direction |-> "falling"]}

\* get_trends_adjustment(sneaker_name)
GetTrendsAdjustment(answer) ==
    IF answer.raises THEN TrendsDefault
    ELSE TrendsFromInterest(answer.current, answer.avg, answer.direction)

CollectTrends ==
    /\ pc = "COLLECTING_TRENDS"
    /\ IF flags.include_trends
       THEN \E answer \in TrendsAnswers :
               /\ trends' = GetTrendsAdjustment(answer)
               /\ env' = IF answer.raises THEN env \cup {"trend"} ELSE env
       ELSE /\ trends' = TrendsDefault
            /\ env' = env
    /\ fetched' = IF flags.include_trends THEN fetched \cup {"google_trends"}
                  ELSE fetched
    /\ pc' = "COLLECTING_LLM"
    /\ UNCHANGED <<singletonVars, loaded, models, data, flags, ml_predictions, prophet_prediction,
                   sentiment, groq_analysis, ensemble_result, response, locals,
                   call, ret>>

\* what the Groq call does: it fails (exception, timeout, a status other
\* than 200, a reply that is no JSON object), or gives an analysis
GroqAnswers ==
    {[fails |-> TRUE, analysis |-> None],
     [fails |-> FALSE, analysis |-> GroqDict(80, 400)],
     [fails |-> FALSE, analysis |-> GroqDict(50, 400)],
     [fails |-> FALSE, analysis |-> GroqNullPrice(50)]}

\* get_groq_analysis(data, ml_predictions)
GetGroqAnalysis(answer) == IF answer.fails THEN None ELSE answer.analysis

\* the LLM asked whatever include_groq says
CollectLlmIgnoringFlag ==
    /\ pc = "COLLECTING_LLM"
    /\ \E answer \in GroqAnswers :
          /\ groq_analysis' = GetGroqAnalysis(answer)
          /\ env' = IF answer.fails THEN env \cup {"llm"} ELSE env
    /\ fetched' = fetched \cup {"groq"}
    /\ pc' = "FUSING"
    /\ UNCHANGED <<singletonVars, loaded, models, data, flags, ml_predictions, prophet_prediction,
                   sentiment, trends, ensemble_result, response, locals, call, ret>>

CollectLlm ==
    /\ pc = "COLLECTING_LLM"
    /\ IF flags.include_groq
       THEN \E answer \in GroqAnswers :
               /\ groq_analysis' = GetGroqAnalysis(answer)
               /\ env' = IF answer.fails THEN env \cup {"llm"} ELSE env
       ELSE /\ groq_analysis' = None
            /\ env' = env
    /\ fetched' = IF flags.include_groq THEN fetched \cup {"groq"} ELSE fetched
    /\ pc' = "FUSING"
    /\ UNCHANGED <<singletonVars, loaded, models, data, flags, ml_predictions, prophet_prediction,
                   sentiment, trends, ensemble_result, response, locals, call, ret>>

\* round(llm_price, 2), and the blend before it, raise a TypeError on a
\* price that is no number
FusionRaises(groq) ==
    /\ groq # None
    /\ DictGet(groq, "adjusted_price_type", "float") # "float"

\* ensemble_result = self.calculate_ensemble_prediction(...)
Fuse ==
    /\ pc = "FUSING"
    /\ IF FusionRaises(groq_analysis)
       THEN /\ response' = Failure("type NoneType doesn't define __round__ method")
            /\ pc' = "FAILED"
            /\ UNCHANGED <<ensemble_result, locals>>
       ELSE /\ ensemble_result' =
                  CalculateEnsemblePrediction(ml_predictions, prophet_prediction,
                                              sentiment, trends, groq_analysis,
                                              RetailPrice)
            /\ locals' = FusionLocals(ml_predictions, prophet_prediction, sentiment,
                                      trends, groq_analysis, RetailPrice)
            /\ pc' = "CLASSIFYING"
            /\ response' = response
    /\ UNCHANGED <<singletonVars, loaded, models, data, flags, env, fetched, ml_predictions,
                   prophet_prediction, sentiment, trends, groq_analysis,
                   call, ret>>

\* recommendation = self.get_recommendation(...) and the success response
Classify ==
    /\ pc = "CLASSIFYING"
    /\ response' = [success |-> TRUE,
                    prediction |-> ensemble_result,
                    recommendation |->
                        GetRecommendation(ensemble_result.price_change_percent,
                                          ensemble_result.overall_confidence)]
    /\ pc' = "DONE"
    /\ UNCHANGED <<singletonVars, loaded, models, data, flags, env, fetched, ml_predictions,
                   prophet_prediction, sentiment, trends, groq_analysis,
                   ensemble_result, locals, call, ret>>

\* predict_best_price has returned: the caller takes the response and the
\* call's locals are gone
Respond ==
    /\ pc \in {"DONE", "FAILED"}
    /\ pc' = "READY"
    /\ data' = None
    /\ flags' = None
    /\ env' = {}
    /\ fetched' = {}
    /\ ml_predictions' = <<>>
    /\ prophet_prediction' = None
    /\ sentiment' = None
    /\ trends' = None
    /\ groq_analysis' = None
    /\ ensemble_result' = None
    /\ response' = None
    /\ locals' = None
    /\ UNCHANGED <<singletonVars, loaded, models, call, ret>>

Next ==
    \/ BeginRequest
    \/ PrepareFeatures
    \/ CollectMl
    \/ CollectProphet
    \/ CollectSentiment
    \/ CollectTrends
    \/ CollectLlm
    \/ Fuse
    \/ Classify
    \/ Respond

Spec == Init /\ [][Next]_vars

(***************************************************************************)
(* POST /predict-best-price/batch (app.py, predict_best_price_batch)       *)
(***************************************************************************)
\* the lists of the model have up to MaxSmallBatch items, or about
\* MAX_BATCH_SIZE of them
MaxSmallBatch == 3

\* "if len(sneakers) > 20"
MAX_BATCH_SIZE == 20

\* an element of the "sneakers" array that is a JSON text, not an object
TextItem == [json_type |-> "str"]

IsDict(d) == "json_type" \notin DOMAIN d

\* what the collaborators answer while one item is predicted
ItemEnv(rf_raises) ==
    [out |-> [n \in ModelNames |->
                 CASE n = "random_forest" ->
                          IF rf_raises THEN Raises ELSE Returns(300)
                   [] n = "gradient_boosting" -> Returns(280)
                   [] n = "ridge_regression" -> Returns(290)
                   [] n = "linear_regression" -> Returns(310)],
     scaler_raises |-> FALSE,
     history |-> "320"]

\* predictor.predict_best_price(data=d, include_sentiment=False,
\* include_trends=False, include_groq=False) as a function of the item and
\* of what the collaborators answer
PredictBestPriceQuick(d, e) ==
    IF ~loaded
    THEN Failure("Models not loaded. Run train_model.py first.")
    ELSE IF ~IsDict(d)
    THEN Failure("'str' object has no attribute 'get'")
    ELSE IF \/ DictGet(d, "retail_price", Num(220)).text
            \/ DictGet(d, "shoe_size", Num(10)).text
    THEN Failure("could not convert string to float")
    ELSE LET retail_price == DictGet(d, "retail_price", Num(220)).v
             sneaker_name == DictGet(d, "sneaker_name", "")
             ml == PredictWithMlModels(models, e.out, e.scaler_raises, retail_price)
             prophet == PredictWithProphet(sneaker_name,
                                           IF sneaker_name = "" THEN "no forecast"
                                           ELSE e.history)
             result == CalculateEnsemblePrediction(ml.predictions, prophet,
                                                   SentimentDisabled, TrendsDefault,
                                                   None, retail_price)
         IN  IF ml.raised THEN Failure("predict raised")
             ELSE [success |-> TRUE,
                   prediction |-> result,
                   recommendation |->
                       GetRecommendation(result.price_change_percent,
                                         result.overall_confidence)]

\* the entry appended for an item whose prediction succeeded
SuccessEntry(sneaker, result) ==
    [sneaker_name |-> DictGet(sneaker, "sneaker_name", "Unknown"),
     retail_price |-> DictGet(sneaker, "retail_price", Num(0)),
     best_predicted_price |-> result.prediction.best_predicted_price,
     price_change_percent |-> result.prediction.price_change_percent,
     recommendation |-> result.recommendation.action,
     confidence |-> result.prediction.overall_confidence]

\* the entry appended for an item whose prediction failed
ErrorEntry(sneaker, result) ==
    [sneaker_name |-> DictGet(sneaker, "sneaker_name", "Unknown"),
     error |-> DictGet(result, "error", "Prediction failed")]

\* the size test with the cap one too high
BatchTooLargeOffByOne(sneakers) == Len(sneakers) > MAX_BATCH_SIZE + 1

\* "if len(sneakers) > 20"
BatchTooLarge(sneakers) == Len(sneakers) > MAX_BATCH_SIZE

BatchItems ==
    {[sneaker_name |-> "Yeezy", retail_price |-> Num(220)],
     [sneaker_name |-> "Jordan", retail_price |-> Text],
     [retail_price |-> Num(170)],
     TextItem}

BatchLengths ==
    (0..MaxSmallBatch) \cup {MAX_BATCH_SIZE - 1, MAX_BATCH_SIZE, MAX_BATCH_SIZE + 1}

\* a list of n items "Yeezy" with the item odd at position at (if any)
ListWith(n, at, odd) ==
    [i \in 1..n |-> IF i = at THEN odd
                    ELSE [sneaker_name |-> "Yeezy", retail_price |-> Num(220)]]

\* the JSON bodies: no body, a body without "sneakers", and lists
BatchBodies ==
    {None, [other |-> 0]}
    \cup {[sneakers |-> ListWith(n, at, odd)] :
             n \in BatchLengths, at \in {1, 2, MAX_BATCH_SIZE}, odd \in BatchItems}

InitBatch ==
    /\ SingletonIdle
    /\ \E st \in LoadedStates : loaded = st.loaded /\ models = st.models
    /\ pc = "READY"
    /\ data = None
    /\ flags = None
    /\ env = {}
    /\ fetched = {}
    /\ ml_predictions = <<>>
    /\ prophet_prediction = None
    /\ sentiment = None
    /\ trends = None
    /\ groq_analysis = None
    /\ ensemble_result = None
    /\ response = None
    /\ locals = None
    /\ ret = None
    /\ \E body \in BatchBodies, r \in {0, 1, 3} :
          call = [op |-> "predict_best_price_batch", body |-> body, rf_raises_at |-> r]

\* data.get('sneakers', [])
Sneakers == DictGet(call.body, "sneakers", <<>>)

\* the handler up to the loop: the body is read and the list is tested
BatchBegin ==
    /\ call.op = "predict_best_price_batch"
    /\ locals = None
    /\ ret = None
    /\ IF call.body = None
       THEN /\ ret' = [status |-> 500,
                       error |-> "'NoneType' object has no attribute 'get'"]
            /\ locals' = locals
       ELSE IF Sneakers = <<>>
       THEN /\ ret' = [status |-> 400, error |-> "sneakers array is required"]
            /\ locals' = locals
       ELSE IF BatchTooLarge(Sneakers)
       THEN /\ ret' = [status |-> 400, error |-> "Maximum 20 sneakers per batch"]
            /\ locals' = locals
       ELSE /\ ret' = ret
            /\ locals' = [results |-> <<>>, predicted |-> 0]
    /\ UNCHANGED <<singletonVars, pipelineVars, call>>

\* one turn of "for sneaker in sneakers": the item is predicted and its entry
\* appended; sneaker.get(...) of an item that is no object raises, and the
\* handler's except answers for the whole batch
BatchPredictItem ==
    /\ call.op = "predict_best_price_batch"
    /\ locals # None
    /\ ret = None
    /\ locals.predicted < Len(Sneakers)
    /\ LET i == locals.predicted + 1
           sneaker == Sneakers[i]
           result == PredictBestPriceQuick(sneaker, ItemEnv(call.rf_raises_at = i))
       IN  IF result.success
           THEN /\ locals' = [results |-> Append(locals.results,
                                                 SuccessEntry(sneaker, result)),
                              predicted |-> i]
                /\ ret' = ret
           ELSE IF IsDict(sneaker)
           THEN /\ locals' = [results |-> Append(locals.results,
                                                 ErrorEntry(sneaker, result)),
                              predicted |-> i]
                /\ ret' = ret
           ELSE /\ locals' = [results |-> locals.results, predicted |-> i]
                /\ ret' = [status |-> 500,
                           error |-> "'str' object has no attribute 'get'"]
    /\ UNCHANGED <<singletonVars, pipelineVars, call>>

\* the loop is over
BatchReturn ==
    /\ call.op = "predict_best_price_batch"
    /\ locals # None
    /\ ret = None
    /\ locals.predicted = Len(Sneakers)
    /\ ret' = [status |-> 200, success |-> TRUE, predictions |-> locals.results,
               count |-> Len(locals.results)]
    /\ UNCHANGED <<singletonVars, pipelineVars, locals, call>>

NextBatch ==
    \/ BatchBegin
    \/ BatchPredictItem
    \/ BatchReturn

SpecBatch == InitBatch /\ [][NextBatch]_vars

(***************************************************************************)
(* get_predictor under concurrent first requests: the Flask server answers *)
(* each request on a thread of its own, and a thread can be pre-empted     *)
(* between any two of the steps below                                      *)
(***************************************************************************)
MaxThreads == 3

Threads == 1..MaxThreads

InitSingleton ==
    /\ predictor_instance = 0
    /\ instances = 0
    /\ threads = [t \in Threads |-> [pc |-> "test", new |-> 0, result |-> 0]]
    /\ \E st \in LoadedStates : loaded = st.loaded /\ models = st.models
    /\ pc = "READY"
    /\ data = None
    /\ flags = None
    /\ env = {}
    /\ fetched = {}
    /\ ml_predictions = <<>>
    /\ prophet_prediction = None
    /\ sentiment = None
    /\ trends = None
    /\ groq_analysis = None
    /\ ensemble_result = None
    /\ response = None
    /\ locals = None
    /\ call = None
    /\ ret = None

\* "if _predictor_instance is None:"
TestInstance(t) ==
    /\ threads[t].pc = "test"
    /\ threads' = [threads EXCEPT ![t].pc =
                       IF predictor_instance = 0 THEN "construct" ELSE "return"]
    /\ UNCHANGED <<predictor_instance, instances, pipelineVars, locals, call, ret>>

\* "EnsemblePricePredictor()": a new object, whose __init__ loads the models
Construct(t) ==
    /\ threads[t].pc = "construct"
    /\ instances' = instances + 1
    /\ threads' = [threads EXCEPT ![t].pc = "assign", ![t].new = instances + 1]
    /\ UNCHANGED <<predictor_instance, pipelineVars, locals, call, ret>>

\* "_predictor_instance = ..."
AssignInstance(t) ==
    /\ threads[t].pc = "assign"
    /\ predictor_instance' = threads[t].new
    /\ threads' = [threads EXCEPT ![t].pc = "return"]
    /\ UNCHANGED <<instances, pipelineVars, locals, call, ret>>

\* "return _predictor_instance"
ReturnInstance(t) ==
    /\ threads[t].pc = "return"
    /\ threads' = [threads EXCEPT ![t].pc = "done", ![t].result = predictor_instance]
    /\ UNCHANGED <<predictor_instance, instances, pipelineVars, locals, call, ret>>

NextSingleton ==
    \E t \in Threads :
        \/ TestInstance(t)
        \/ Construct(t)
        \/ AssignInstance(t)
        \/ ReturnInstance(t)

SpecSingleton == InitSingleton /\ [][NextSingleton]_vars

(***************************************************************************)
(* The time-series source: predict_with_prophet of the ensemble predictor  *)
(* and get_time_series_forecast of the social predictor, on what           *)
(* get_sneaker_price_history (time_series.py) answers                      *)
(***************************************************************************)
\* len(price_history): the days with sales in the product's history
HistoryDataPoints == {3, 5, 29, 30, 31, 60}

\* the forecast of periods = 30 days; predicted_price is round(max(0, yhat), 2)
Forecast(p7, p14, p30) ==
    [i \in 1..30 |->
        LET price == IF i = 7 THEN p7
                     ELSE IF i = 14 THEN p14
                     ELSE IF i = 30 THEN p30
                     ELSE 300
        IN  [predicted_price |-> price,
             lower_bound |-> Max0(price - 20),
             upper_bound |-> price + 20]]

\* what get_sneaker_price_history does: it raises, answers {'error': ...},
\* or answers the history with a forecast, which is empty when the history
\* has fewer than 5 points
HistoryResults ==
    {[raises |-> TRUE], [raises |-> FALSE, error |-> "not found in dataset"]}
    \cup {[raises |-> FALSE, success |-> TRUE,
           history |-> [data_points |-> n],
           forecast |-> IF n < 5 THEN <<>> ELSE Forecast(p7, 310, p30),
           forecast_model |-> IF n < 10 THEN "Linear Trend" ELSE "Prophet"] :
              n \in HistoryDataPoints, p7 \in {0, 305}, p30 \in {0, 320}}

\* forecast[k - 1]['predicted_price'] if len(forecast) > k - 1 else None
ForecastPoint(forecast, k) ==
    IF Len(forecast) > k - 1 THEN forecast[k].predicted_price ELSE None

\* the forecast dict with a confidence that follows the number of
\* observations: 0.85 from 30 on, 0.70 below
PredictWithProphetByHistory(sneaker_name, history_result) ==
    IF sneaker_name = "" \/ history_result.raises THEN None
    ELSE IF DictGet(history_result, "success", FALSE)
            /\ DictGet(history_result, "forecast", <<>>) # <<>>
    THEN LET forecast == history_result.forecast
         IN  [predicted_price_7d |-> ForecastPoint(forecast, 7),
              predicted_price_14d |-> ForecastPoint(forecast, 14),
              predicted_price_30d |-> forecast[Len(forecast)].predicted_price,
              lower_bound |-> forecast[Len(forecast)].lower_bound,
              upper_bound |-> forecast[Len(forecast)].upper_bound,
              confidence |-> IF history_result.history.data_points >= 30
                             THEN 85 ELSE 70,
              weight |-> 20,
              model_type |-> DictGet(history_result, "forecast_model", "Time Series"),
              historical_data_points |-> history_result.history.data_points]
    ELSE None

\* EnsemblePricePredictor.predict_with_prophet(sneaker_name, retail_price),
\* history_result being what get_sneaker_price_history answers
PredictWithProphetHistory(sneaker_name, history_result) ==
    IF sneaker_name = "" \/ history_result.raises THEN None
    ELSE IF DictGet(history_result, "success", FALSE)
            /\ DictGet(history_result, "forecast", <<>>) # <<>>
    THEN LET forecast == history_result.forecast
         IN  [predicted_price_7d |-> ForecastPoint(forecast, 7),
              predicted_price_14d |-> ForecastPoint(forecast, 14),
              predicted_price_30d |-> forecast[Len(forecast)].predicted_price,
              lower_bound |-> forecast[Len(forecast)].lower_bound,
              upper_bound |-> forecast[Len(forecast)].upper_bound,
              confidence |-> 85,
              weight |-> 20,
              model_type |-> DictGet(history_result, "forecast_model", "Time Series"),
              historical_data_points |-> history_result.history.data_points]
    ELSE None

\* SocialPricePredictor.get_time_series_forecast(sneaker_name, retail_price)
GetTimeSeriesForecast(sneaker_name, history_result) ==
    IF sneaker_name = "" \/ history_result.raises THEN None
    ELSE IF DictGet(history_result, "success", FALSE)
            /\ DictGet(history_result, "forecast", <<>>) # <<>>
    THEN LET forecast == history_result.forecast
         IN  [predicted_price_7d |-> ForecastPoint(forecast, 7),
              predicted_price_14d |-> ForecastPoint(forecast, 14),
              predicted_price_30d |-> forecast[Len(forecast)].predicted_price,
              lower_bound |-> forecast[Len(forecast)].lower_bound,
              upper_bound |-> forecast[Len(forecast)].upper_bound,
              model |-> DictGet(history_result, "forecast_model", "Time Series"),
              historical_data_points |-> history_result.history.data_points,
              confidence |-> IF history_result.history.data_points > 30
                             THEN 85 ELSE 70]
    ELSE None

InitProphet ==
    /\ PipelineIdle
    /\ locals = None
    /\ ret = None
    /\ \E op \in {"predict_with_prophet", "get_time_series_forecast"},
          name \in {"", "Yeezy"}, h \in HistoryResults :
          call = [op |-> op, sneaker_name |-> name, history_result |-> h,
                  returned |-> FALSE]

CallPredictWithProphet ==
    /\ call.op = "predict_with_prophet"
    /\ ~call.returned
    /\ ret' = PredictWithProphetHistory(call.sneaker_name, call.history_result)
    /\ call' = [call EXCEPT !.returned = TRUE]
    /\ UNCHANGED <<singletonVars, pipelineVars, locals>>

CallGetTimeSeriesForecast ==
    /\ call.op = "get_time_series_forecast"
    /\ ~call.returned
    /\ ret' = GetTimeSeriesForecast(call.sneaker_name, call.history_result)
    /\ call' = [call EXCEPT !.returned = TRUE]
    /\ UNCHANGED <<singletonVars, pipelineVars, locals>>

\* the forecast of predict_with_prophet goes into calculate_ensemble_prediction
\* next to the regression sources
FuseForecast ==
    /\ call.op = "predict_with_prophet"
    /\ call.returned
    /\ locals = None
    /\ locals' = FusionLocals(<<Source("random_forest", 300),
                                Source("gradient_boosting", 280)>>, ret,
                              SentimentDisabled, TrendsDefault, None, 220)
    /\ UNCHANGED <<singletonVars, pipelineVars, call, ret>>

NextProphet ==
    \/ CallPredictWithProphet
    \/ CallGetTimeSeriesForecast
    \/ FuseForecast

SpecProphet == InitProphet /\ [][NextProphet]_vars

(***************************************************************************)
(* SocialPricePredictor.predict: linear regression, time series and the    *)
(* social adjustment.  retail_price is in whole dollars, computed prices   *)
(* in mills, weights in thousandths, price_adjustment in 1/10000           *)
(***************************************************************************)
\* retail_price * 1.15, in mills
SocialFallbackPrice(retail_price) == retail_price * 1150

\* get_linear_regression_prediction(features, retail_price): linear is what
\* the scaler and the regression model do, raising or predicting a price
GetLinearRegressionPrediction(linear, retail_price) ==
    IF linear.raises
    THEN [predicted_price |-> SocialFallbackPrice(retail_price),
          model |-> "Fallback", confidence |-> 50]
    ELSE LET prediction == IF linear.model = "Estimated"
                           THEN SocialFallbackPrice(retail_price)
                           ELSE linear.prediction
         IN  [predicted_price |->
                  IF prediction <= 0 \/ prediction > retail_price * 5000
                  THEN SocialFallbackPrice(retail_price)
                  ELSE prediction,
              model |-> linear.model,
              confidence |-> 75]

\* predictions and weights of calculate_final_prediction
SocialCandidates(linear_pred, time_series) ==
    (IF time_series # None /\ time_series.predicted_price_30d # 0
     THEN <<[price |-> time_series.predicted_price_30d * 1000,
             w |-> 5 * time_series.confidence]>>
     ELSE <<>>)
    \o <<[price |-> linear_pred.predicted_price,
          w |-> IF time_series = None THEN 7 * linear_pred.confidence
                ELSE 3 * linear_pred.confidence]>>

\* the confidence of calculate_final_prediction, in hundredths
SocialConfidence(time_series, social_data) ==
    LET data_points == IF time_series # None
                       THEN time_series.historical_data_points ELSE 0
        c == 70 + (IF data_points > 50 THEN 10 ELSE 0)
                + (IF social_data.posts_found > 10 THEN 10 ELSE 0)
                + (IF social_data.google_trends THEN 5 ELSE 0)
    IN  IF c > 95 THEN 95 ELSE c

\* calculate_final_prediction(linear_pred, time_series, social_data,
\* retail_price); price_change_percent is in 1/100 of a percent
CalculateFinalPrediction(linear_pred, time_series, social_data, retail_price) ==
    LET all == SocialCandidates(linear_pred, time_series)
        tw == TotalWeight(all)
        base_prediction ==
            IF tw > 0
            THEN SumSeq([i \in DOMAIN all |-> all[i].price * all[i].w]) \div tw
            ELSE linear_pred.predicted_price
        final_prediction ==
            MulDiv(base_prediction, social_data.price_adjustment, 10000)
        price_change == final_prediction - retail_price * 1000
        diff == final_prediction - base_prediction
        std_dev == (IF diff < 0 THEN 0 - diff ELSE diff) + final_prediction \div 20
    IN  [predicted_price |-> Round2(final_prediction),
         price_change |-> Round2(price_change),
         price_change_percent |->
             Round2(PriceChangePct(final_prediction, retail_price)),
         is_increase |-> price_change >= 0,
         price_range |-> [low |-> Round2(final_prediction - std_dev),
                          mid |-> Round2(final_prediction),
                          high |-> Round2(final_prediction + std_dev)],
         confidence |-> SocialConfidence(time_series, social_data),
         social_adjustment |-> social_data.price_adjustment - 10000]

\* SocialPricePredictor.get_recommendation(price_change_percent,
\* is_increase, confidence)
SocialGetRecommendation(price_change_percent, is_increase, confidence) ==
    [action |-> IF price_change_percent > 5000 THEN "STRONG BUY"
                ELSE IF price_change_percent > 2500 THEN "BUY"
                ELSE IF price_change_percent > 1000 THEN "CONSIDER"
                ELSE IF price_change_percent > 0 THEN "HOLD"
                ELSE IF price_change_percent > -1000 THEN "CAUTION"
                ELSE "AVOID",
     trend_label |-> IF is_increase THEN "UP" ELSE "DOWN",
     trend_color |-> IF is_increase THEN "green" ELSE "red"]

\* SocialPricePredictor.predict(data), on what its collaborators answer
SocialPredict(d) ==
    IF ~d.loaded THEN Failure("Models not loaded")
    ELSE LET linear_pred == GetLinearRegressionPrediction(d.linear, d.retail_price)
             time_series == GetTimeSeriesForecast(d.sneaker_name, d.history_result)
             prediction == CalculateFinalPrediction(linear_pred, time_series,
                                                    d.social_data, d.retail_price)
             recommendation ==
                 SocialGetRecommendation(prediction.price_change_percent,
                                         prediction.is_increase,
                                         prediction.confidence)
         IN  [success |-> TRUE,
              prediction |->
                  [predicted_price |-> prediction.predicted_price,
                   price_change |-> prediction.price_change,
                   price_change_percent |-> prediction.price_change_percent,
                   is_increase |-> prediction.is_increase,
                   trend_label |-> recommendation.trend_label,
                   trend_color |-> recommendation.trend_color,
                   price_range |-> prediction.price_range,
                   confidence |-> prediction.confidence],
              recommendation |-> recommendation]

\* what the scaler and the regression model do: the scaler raises, no
\* linear model is loaded, or the model predicts a price (in mills)
LinearAnswers ==
    {[raises |-> TRUE, model |-> "Ridge Regression", prediction |-> 0],
     [raises |-> FALSE, model |-> "Estimated", prediction |-> 0]}
    \cup {[raises |-> FALSE, model |-> "Ridge Regression", prediction |-> p] :
             p \in {-50000, 150000, 219990, 220000, 220010, 260000, 340000, 1200000}}

\* get_social_media_data: the mean of the Reddit and the trend adjustment
SocialData ==
    {[price_adjustment |-> 10000, posts_found |-> 0, google_trends |-> FALSE],
     [price_adjustment |-> 10750, posts_found |-> 20, google_trends |-> TRUE],
     [price_adjustment |-> 9000, posts_found |-> 5, google_trends |-> TRUE]}

InitSocial ==
    /\ PipelineIdle
    /\ locals = None
    /\ ret = None
    /\ \E ld \in BOOLEAN, rp \in {0, 220}, lin \in LinearAnswers,
          h \in HistoryResults, sd \in SocialData :
          call = [op |-> "predict", loaded |-> ld, sneaker_name |-> "Yeezy",
                  retail_price |-> rp, linear |-> lin, history_result |-> h,
                  social_data |-> sd]

CallPredict ==
    /\ call.op = "predict"
    /\ ret = None
    /\ ret' = SocialPredict(call)
    /\ UNCHANGED <<singletonVars, pipelineVars, locals, call>>

NextSocial == CallPredict

SpecSocial == InitSocial /\ [][NextSocial]_vars

(***************************************************************************)
(* Claims about calculate_ensemble_prediction (SpecFusion)                 *)
(***************************************************************************)
FusionReturned == call.op = "calculate_ensemble_prediction" /\ ret # None

\* the prices that were fused
FusedPrices == [i \in DOMAIN locals.all_predictions |-> locals.all_predictions[i].price]

\* C1: the returned overall_confidence lies in [0.6, 0.95] for every call,
\* and is exactly 0.80 when fewer than two price-bearing candidates are fused.
C1_ConfidenceInRange ==
    FusionReturned =>
        /\ ret.overall_confidence >= 60
        /\ ret.overall_confidence <= 95
        /\ Len(locals.all_predictions) < 2 => ret.overall_confidence = 80

\* two or more candidates so dispersed that the floor applies, and the call
\* has returned
C1_Witness ==
    /\ FusionReturned
    /\ Len(locals.all_predictions) >= 2
    /\ SeqMin(FusedPrices) = 0
    /\ SeqMax(FusedPrices) > 0
    /\ ret.overall_confidence = 60

\* the price-bearing sources of the call: every emitted regression source,
\* and the 30-day time-series source when a forecast with a non-zero 30-day
\* price is given
C2_Sources ==
    [i \in DOMAIN call.ml_predictions |->
        [price |-> call.ml_predictions[i].predicted_price,
         weight |-> call.ml_predictions[i].weight,
         confidence |-> call.ml_predictions[i].confidence]]
    \o (IF call.prophet_prediction = None THEN <<>>
        ELSE IF call.prophet_prediction.predicted_price_30d = 0 THEN <<>>
        ELSE <<[price |-> call.prophet_prediction.predicted_price_30d,
                weight |-> call.prophet_prediction.weight,
                confidence |-> call.prophet_prediction.confidence]>>)

C2_Numerator ==
    SumSeq([i \in DOMAIN C2_Sources |->
               C2_Sources[i].price * C2_Sources[i].weight * C2_Sources[i].confidence])

C2_Denominator ==
    SumSeq([i \in DOMAIN C2_Sources |-> C2_Sources[i].weight * C2_Sources[i].confidence])

C2_IsScenario ==
    /\ call.retail_price = 220
    /\ call.ml_predictions = <<Source("random_forest", 300),
                               Source("gradient_boosting", 280)>>
    /\ call.prophet_prediction = None
    /\ call.sentiment.adjustment_factor = 1000
    /\ call.trends.adjustment_factor = 1000
    /\ call.groq_analysis = None

\* C2: when some source has positive weight x confidence, the base estimate
\* is sum(price * weight * confidence) / sum(weight * confidence) over the
\* price-bearing sources (here to the mill, truncated); retail 220 with
\* (300, 0.35, 0.93) and (280, 0.30, 0.91) and neutral adjustments gives
\* 290.88 and +32.22 %.
C2_WeightedAverage ==
    FusionReturned =>
        /\ C2_Denominator > 0 =>
              /\ locals.ensemble_price \div 1000 = C2_Numerator \div C2_Denominator
              /\ locals.ensemble_price % 1000
                     = ((C2_Numerator % C2_Denominator) * 1000) \div C2_Denominator
        /\ C2_IsScenario =>
              /\ locals.ensemble_price = 290877
              /\ ret.best_predicted_price = 29088
              /\ ret.price_change_percent = 3222

C2_Witness ==
    /\ FusionReturned
    /\ C2_IsScenario
    /\ ret.best_predicted_price = 29088

\* C3: with at least one price-bearing source the base estimate lies within
\* [min(prices), max(prices)]; a single source with weight = confidence = 1
\* gives exactly its price.
C3_Convexity ==
    (FusionReturned /\ Len(locals.all_predictions) >= 1) =>
        /\ locals.ensemble_price >= SeqMin(FusedPrices) * 1000
        /\ locals.ensemble_price <= SeqMax(FusedPrices) * 1000
        /\ (/\ Len(call.ml_predictions) = 1
            /\ call.ml_predictions[1].weight = 100
            /\ call.ml_predictions[1].confidence = 100
            /\ ~ProphetFused(call.prophet_prediction))
           => locals.ensemble_price = call.ml_predictions[1].predicted_price * 1000

\* three sources of different prices were fused into a price strictly
\* between the lowest and the highest
C3_Witness ==
    /\ FusionReturned
    /\ Len(locals.all_predictions) >= 3
    /\ locals.ensemble_price > SeqMin(FusedPrices) * 1000
    /\ locals.ensemble_price < SeqMax(FusedPrices) * 1000

\* C5: when no price-bearing source survived (total weight 0) the base
\* estimate is retail_price * 1.1 and the call returns a result.
C5_Fallback ==
    (FusionReturned /\ call.ml_predictions = <<>>
         /\ ~ProphetFused(call.prophet_prediction)) =>
        /\ locals.total_weight = 0
        /\ locals.ensemble_price * 10 = call.retail_price * 1000 * 11
        /\ "best_predicted_price" \in DOMAIN ret

C5_Witness ==
    /\ FusionReturned
    /\ call.ml_predictions = <<>>
    /\ call.prophet_prediction = None
    /\ call.retail_price = 220
    /\ locals.ensemble_price = 242000
    /\ ret.best_predicted_price = 24200

\* base estimate x sentiment factor x trend factor, in mills
SequentiallyAdjusted ==
    (((locals.ensemble_price * call.sentiment.adjustment_factor) \div 1000)
        * call.trends.adjustment_factor) \div 1000

\* no LLM analysis, or one whose confidence is missing or not above 0.6
NoLlmBlend ==
    \/ call.groq_analysis = None
    \/ "confidence" \notin DOMAIN call.groq_analysis
    \/ call.groq_analysis.confidence <= 60

\* C13: with no LLM blend the final price is base estimate x sentiment
\* factor x trend factor (300 x 1.05 x 0.98 = 308.7), and
\* price_change_percent is (final price - retail_price) / retail_price x 100
\* of this adjusted price.
C13_SequentialAdjustment ==
    (FusionReturned /\ NoLlmBlend) =>
        /\ locals.final_price = SequentiallyAdjusted
        /\ ret.best_predicted_price = Round2(SequentiallyAdjusted)
        /\ call.retail_price > 0 =>
              ret.price_change_percent
                  = Round2(((SequentiallyAdjusted - call.retail_price * 1000) * 100)
                               \div call.retail_price)
        /\ (/\ locals.ensemble_price = 300000
            /\ call.sentiment.adjustment_factor = 1050
            /\ call.trends.adjustment_factor = 980)
           => /\ locals.final_price = 308700
              /\ call.retail_price = 220 => ret.price_change_percent = 4032

\* a base estimate of 300 with the factors 1.05 and 0.98 and no LLM
\* analysis gave 308.70, +40.32 % over a retail price of 220
C13_Witness ==
    /\ FusionReturned
    /\ call.groq_analysis = None
    /\ call.retail_price = 220
    /\ locals.ensemble_price = 300000
    /\ call.sentiment.adjustment_factor = 1050
    /\ call.trends.adjustment_factor = 980
    /\ ret.best_predicted_price = 30870
    /\ ret.price_change_percent = 4032

\* C14: the LLM adjustment comes last: with an analysis whose confidence is
\* strictly above 0.6 the final price is 0.9 x (base x sentiment x trend)
\* + 0.1 x the LLM's adjusted price; with a confidence of 0.6 or lower or
\* missing, or no analysis, the running estimate is left unchanged.
C14_LlmBlend ==
    FusionReturned =>
        /\ (/\ ~NoLlmBlend
            /\ "adjusted_price" \in DOMAIN call.groq_analysis)
           => locals.final_price
                  = (SequentiallyAdjusted * 9
                       + call.groq_analysis.adjusted_price * 1000) \div 10
        /\ NoLlmBlend => locals.final_price = SequentiallyAdjusted

\* an analysis of confidence 0.61 and price 400 was blended into a base of
\* 300 adjusted by 1.05 and 0.98: 0.9 x 308.70 + 0.1 x 400 = 317.83
C14_Witness ==
    /\ FusionReturned
    /\ call.groq_analysis # None
    /\ DictGet(call.groq_analysis, "confidence", 50) = 61
    /\ locals.ensemble_price = 300000
    /\ call.sentiment.adjustment_factor = 1050
    /\ call.trends.adjustment_factor = 980
    /\ locals.final_price = 317830
    /\ ret.best_predicted_price = 31783

\* sum over the candidates of (n x price - sum of the prices)^2, which is
\* n^3 times their population variance
SquaredDeviations(ps) ==
    SumSeq([i \in DOMAIN ps |->
               (Len(ps) * ps[i] - SumSeq(ps)) * (Len(ps) * ps[i] - SumSeq(ps))])

\* C16: with two or more price-bearing candidates std is the unweighted
\* population standard deviation of their prices (n x std squared is n^2
\* times the variance, here to the dollar; 300 and 280 give exactly 10.00);
\* with fewer than two, std is a tenth of the final estimate; the range is
\* low = final - std, mid = final, high = final + std.
C16_Dispersion ==
    FusionReturned =>
        LET n == Len(FusedPrices)
            below == (n * locals.price_std) \div 1000
            above == (n * locals.price_std + n) \div 1000 + 1
        IN  /\ n >= 2 =>
                  /\ below * below * n <= SquaredDeviations(FusedPrices)
                  /\ above * above * n > SquaredDeviations(FusedPrices)
            /\ FusedPrices = <<300, 280>> => locals.price_std = 10000
            /\ n < 2 => locals.price_std = locals.final_price \div 10
            /\ ret.price_range.low = Round2(locals.final_price - locals.price_std)
            /\ ret.price_range.mid = Round2(locals.final_price)
            /\ ret.price_range.high = Round2(locals.final_price + locals.price_std)

\* the candidates 300 and 280 gave a std of 10.00 around 290.88
C16_Witness ==
    /\ FusionReturned
    /\ FusedPrices = <<300, 280>>
    /\ locals.price_std = 10000
    /\ ret.price_range = [low |-> 28088, mid |-> 29088, high |-> 30088]

\* the locals of the same call given other adjustments
WithAdjustments(adj) ==
    FusionLocals(call.ml_predictions, call.prophet_prediction,
                 adj[1], adj[2], adj[3], call.retail_price)

\* the adjustments each call is compared under: neutral ones, and two that
\* move the final price
OtherAdjustments ==
    {<<SentimentDict(1000, 0, "default"), TrendsDict(1000, "stable"), None>>,
     <<SentimentDict(900, 20, "reddit"), TrendsDict(800, "falling"), None>>,
     <<SentimentDict(1050, 12, "reddit"), TrendsDict(980, "falling"), GroqDict(61, 400)>>}

\* C17: sentiment, trend and LLM inputs never enter the weighted average:
\* for the same regression and time-series sources, any other sentiment
\* factor, trend factor and LLM analysis give the same fused candidates and
\* base estimate and, with two or more price sources, the same std and
\* overall_confidence.
C17_AdjustmentsDoNotFuse ==
    FusionReturned =>
        \A adj \in OtherAdjustments :
            LET other == WithAdjustments(adj)
            IN  /\ other.all_predictions = locals.all_predictions
                /\ other.ensemble_price = locals.ensemble_price
                /\ Len(locals.all_predictions) >= 2 =>
                      /\ other.price_std = locals.price_std
                      /\ other.overall_confidence = locals.overall_confidence

\* three sources were fused under a sentiment factor, a trend factor and an
\* LLM analysis that all moved the final price away from the base estimate
C17_Witness ==
    /\ FusionReturned
    /\ Len(locals.all_predictions) >= 3
    /\ call.sentiment.adjustment_factor = 1050
    /\ call.trends.adjustment_factor = 980
    /\ ~NoLlmBlend
    /\ locals.final_price # locals.ensemble_price
    /\ WithAdjustments(<<SentimentDict(1000, 0, "default"),
                         TrendsDict(1000, "stable"), None>>).final_price
           # locals.final_price

\* the 'model' of every entry of the returned model_breakdown, in order
BreakdownModels ==
    [i \in DOMAIN ret.model_breakdown |-> ret.model_breakdown[i].model]

\* the sources of the call in the order of the fusion: the regression models
\* of ml_predictions, the time series when it is fused, the LLM when
\* llm_listed, then the sentiment and the trend adjustment
SourcesInOrder(llm_listed) ==
    [i \in DOMAIN call.ml_predictions |-> Title(call.ml_predictions[i].name)]
    \o (IF ProphetFused(call.prophet_prediction)
        THEN <<"Prophet Time Series">> ELSE <<>>)
    \o (IF llm_listed THEN <<"Groq LLM Analysis">> ELSE <<>>)
    \o <<"Sentiment Analysis", "Google Trends">>

\* C24 as the claim states it: model_breakdown has exactly one entry for
\* every source that took part in the fusion (the LLM takes part when its
\* price is blended), in the order regression models, time series,
\* adjustments, and models_used is the number of these sources
C24_OneEntryPerParticipant ==
    FusionReturned =>
        /\ BreakdownModels = SourcesInOrder(~NoLlmBlend)
        /\ ret.models_used = Len(SourcesInOrder(~NoLlmBlend))

\* C24 (amended): model_breakdown lists, in this order, every regression
\* model of ml_predictions, the time series when it is fused, the LLM
\* whenever an analysis was obtained (blended or not), then the sentiment
\* and the trend adjustment, which are always listed; models_used is the
\* length of the list
C24_BreakdownListsSources ==
    FusionReturned =>
        /\ BreakdownModels = SourcesInOrder(call.groq_analysis # None)
        /\ ret.models_used = Len(ret.model_breakdown)
        /\ \A i \in DOMAIN call.ml_predictions :
              ret.model_breakdown[i].predicted_price
                  = call.ml_predictions[i].predicted_price * 100

\* four regression models, a fused forecast and an LLM analysis of
\* confidence 0.6, which is listed although its price was not blended
C24_Witness ==
    /\ FusionReturned
    /\ Len(call.ml_predictions) = 4
    /\ ProphetFused(call.prophet_prediction)
    /\ call.groq_analysis # None
    /\ NoLlmBlend
    /\ ret.models_used = 8
    /\ ret.model_breakdown[6].model = "Groq LLM Analysis"

\* C28: in every result of the fusion 0 <= price_range.low <= mid <= high,
\* and mid is best_predicted_price.
C28_PriceRangeOrdered ==
    FusionReturned =>
        /\ 0 <= ret.price_range.low
        /\ ret.price_range.low <= ret.price_range.mid
        /\ ret.price_range.mid <= ret.price_range.high
        /\ ret.price_range.mid = ret.best_predicted_price

\* the fusion of the same call without its forecast
WithoutForecast ==
    FusionLocals(call.ml_predictions, None, call.sentiment, call.trends,
                 call.groq_analysis, call.retail_price)

\* C29: the time series is a fused candidate exactly when a forecast is
\* given and its 30-day price is not 0; a 30-day forecast of 0 leaves the
\* weighted average, the std and the candidate count as they are without a
\* forecast, whereas every regression candidate is fused, one of 0 included.
C29_ZeroForecastIsMissing ==
    FusionReturned =>
        LET pp == call.prophet_prediction
            n == Len(call.ml_predictions)
            all == locals.all_predictions
        IN  /\ (pp # None /\ pp.predicted_price_30d # 0) =>
                  /\ Len(all) = n + 1
                  /\ all[n + 1] = [price |-> pp.predicted_price_30d,
                                   w |-> pp.weight * pp.confidence]
            /\ (pp = None \/ pp.predicted_price_30d = 0) => Len(all) = n
            /\ (pp # None /\ pp.predicted_price_30d = 0) =>
                  LET without == WithoutForecast
                  IN  /\ locals.ensemble_price = without.ensemble_price
                      /\ locals.price_std = without.price_std
                      /\ locals.overall_confidence = without.overall_confidence
                      /\ locals.total_weight = without.total_weight
            /\ \A i \in 1..n :
                  /\ all[i].price = call.ml_predictions[i].predicted_price
                  /\ all[i].w = call.ml_predictions[i].weight
                                   * call.ml_predictions[i].confidence

\* a forecast of 0 was left out while a regression candidate of 0 was fused
\* with one of 300
C29_Witness ==
    /\ FusionReturned
    /\ call.prophet_prediction # None
    /\ call.prophet_prediction.predicted_price_30d = 0
    /\ Len(locals.all_predictions) = 2
    /\ locals.all_predictions[1].price = 0
    /\ locals.all_predictions[2].price = 300
    /\ locals.ensemble_price > 0

(***************************************************************************)
(* Claims about predict_with_ml_models (SpecMl)                            *)
(***************************************************************************)
MlReturned == call.op = "predict_with_ml_models" /\ ret # None /\ ~ret.raised

Emitted(name) == \E i \in DOMAIN ret.predictions : ret.predictions[i].name = name

LinearModels == {"ridge_regression", "linear_regression"}

TreeModels == {"random_forest", "gradient_boosting"}

\* the linear model's predict was reached and returned
LinearAnswered(name) ==
    /\ name \in call.models
    /\ ~call.scaler_raises
    /\ ~call.out[name].raises
    /\ (name = "linear_regression" /\ "ridge_regression" \in call.models)
           => ~call.out["ridge_regression"].raises

\* C6 as claimed: a source is emitted, for any of the four models, only if
\* its candidate is positive and does not exceed 5 * retail_price.
C6_AllModelsFiltered ==
    MlReturned =>
        \A name \in ModelNames :
            Emitted(name) =>
                /\ call.out[name].value > 0
                /\ call.out[name].value <= 5 * call.retail_price

\* C6 as amended: a ridge or linear regression source is emitted only if its
\* candidate is positive and does not exceed 5 * retail_price; a loaded
\* random forest or gradient boosting model is always emitted, with a
\* negative candidate raised to 0 and any other candidate unchanged.
C6_LinearModelsFiltered ==
    MlReturned =>
        /\ \A name \in LinearModels :
              Emitted(name) =>
                  /\ call.out[name].value > 0
                  /\ call.out[name].value <= 5 * call.retail_price
        /\ \A name \in TreeModels :
              name \in call.models =>
                  \E i \in DOMAIN ret.predictions :
                      /\ ret.predictions[i].name = name
                      /\ ret.predictions[i].predicted_price
                             = (IF call.out[name].value < 0 THEN 0
                                ELSE call.out[name].value)

\* an over-5x ridge candidate was dropped while a negative random forest
\* candidate and an over-5x gradient boosting candidate were emitted
C6_Witness ==
    /\ MlReturned
    /\ LinearAnswered("ridge_regression")
    /\ call.out["ridge_regression"].value > 5 * call.retail_price
    /\ ~Emitted("ridge_regression")
    /\ "random_forest" \in call.models
    /\ call.out["random_forest"].value < 0
    /\ Emitted("random_forest")
    /\ "gradient_boosting" \in call.models
    /\ call.out["gradient_boosting"].value > 5 * call.retail_price
    /\ Emitted("gradient_boosting")

\* C7: at the plausibility boundary (the test the ridge and linear
\* regression candidates go through) a candidate of exactly
\* 5 * retail_price is excluded and one of 4.999 * retail_price is included.
C7_Boundary ==
    MlReturned =>
        \A name \in LinearModels :
            LinearAnswered(name) =>
                /\ call.out[name].value = 5 * call.retail_price => ~Emitted(name)
                /\ (/\ call.retail_price > 0
                    /\ call.out[name].value * 1000 = 4999 * call.retail_price)
                   => Emitted(name)

\* retail 1000: ridge at 5000 was dropped, linear regression at 4999 emitted
C7_Witness ==
    /\ MlReturned
    /\ call.retail_price = 1000
    /\ LinearAnswered("ridge_regression")
    /\ call.out["ridge_regression"].value = 5000
    /\ ~Emitted("ridge_regression")
    /\ LinearAnswered("linear_regression")
    /\ call.out["linear_regression"].value = 4999
    /\ Emitted("linear_regression")

(***************************************************************************)
(* Claims about get_recommendation (SpecRec)                               *)
(***************************************************************************)
RecReturned == call.op = "get_recommendation" /\ ret # None

\* beyond every percentage of the model
Unbounded == 250 * MaxPctSteps + 1000000

\* the six tiers; a band holds the percentages p with above < p <= upto
\* (in 1/100 of a percent)
Tiers ==
    {[above |-> 7500, upto |-> Unbounded, action |-> "STRONG BUY", risk |-> "Low"],
     [above |-> 4000, upto |-> 7500, action |-> "BUY", risk |-> "Low-Medium"],
     [above |-> 1500, upto |-> 4000, action |-> "CONSIDER BUYING", risk |-> "Medium"],
     [above |-> 0, upto |-> 1500, action |-> "HOLD", risk |-> "Medium"],
     [above |-> -1500, upto |-> 0, action |-> "CAUTION", risk |-> "Medium-High"],
     [above |-> 0 - Unbounded, upto |-> -1500, action |-> "AVOID", risk |-> "High"]}

TiersOf(p) == {t \in Tiers : t.above < p /\ p <= t.upto}

\* C8: every percentage falls in exactly one of the six tiers and gets that
\* tier's action and risk; the boundary values 75, 40, 15, 0, -15 get the
\* lower of the two adjacent tiers (BUY, CONSIDER, HOLD, CAUTION, AVOID).
C8_TiersPartition ==
    RecReturned =>
        /\ Cardinality(TiersOf(call.price_change_pct)) = 1
        /\ \A t \in TiersOf(call.price_change_pct) :
              ret.action = t.action /\ ret.risk_level = t.risk
        /\ call.price_change_pct = 7500 => ret.action = "BUY"
        /\ call.price_change_pct = 4000 => ret.action = "CONSIDER BUYING"
        /\ call.price_change_pct = 1500 => ret.action = "HOLD"
        /\ call.price_change_pct = 0 => ret.action = "CAUTION"
        /\ call.price_change_pct = -1500 => ret.action = "AVOID"

C8_Witness ==
    /\ RecReturned
    /\ call.price_change_pct = 7500
    /\ ret.action = "BUY"
    /\ ret.risk_level = "Low-Medium"

\* C9 as claimed: each band includes its lower bound: exactly 40 yields BUY,
\* 15 CONSIDER, 0 HOLD and -15 CAUTION.
C9_LowerBoundInclusive ==
    RecReturned =>
        /\ call.price_change_pct = 4000 => ret.action = "BUY"
        /\ call.price_change_pct = 1500 => ret.action = "CONSIDER BUYING"
        /\ call.price_change_pct = 0 => ret.action = "HOLD"
        /\ call.price_change_pct = -1500 => ret.action = "CAUTION"

\* C9 as amended: each band excludes its lower bound and includes its upper
\* bound: exactly 40 yields CONSIDER, 15 HOLD, 0 CAUTION and -15 AVOID,
\* while 40.01 yields BUY, 15.01 CONSIDER, 0.01 HOLD and -14.99 CAUTION.
C9_UpperBoundInclusive ==
    RecReturned =>
        /\ call.price_change_pct = 4000 => ret.action = "CONSIDER BUYING"
        /\ call.price_change_pct = 1500 => ret.action = "HOLD"
        /\ call.price_change_pct = 0 => ret.action = "CAUTION"
        /\ call.price_change_pct = -1500 => ret.action = "AVOID"
        /\ call.price_change_pct = 4001 => ret.action = "BUY"
        /\ call.price_change_pct = 1501 => ret.action = "CONSIDER BUYING"
        /\ call.price_change_pct = 1 => ret.action = "HOLD"
        /\ call.price_change_pct = -1499 => ret.action = "CAUTION"

C9_Witness ==
    /\ RecReturned
    /\ call.price_change_pct = 4000
    /\ ret.action = "CONSIDER BUYING"

(***************************************************************************)
(* Claims about predict_best_price (Spec)                                  *)
(***************************************************************************)
Returned == pc \in {"DONE", "FAILED"}

\* C4: when no regression model yields a source and no forecast is
\* available, predict_best_price returns a failure (success = false with an
\* error) and no numeric estimate.
C4_NoComputablePrice ==
    (Returned /\ ml_predictions = <<>> /\ prophet_prediction = None) =>
        /\ response.success = FALSE
        /\ "error" \in DOMAIN response
        /\ "prediction" \notin DOMAIN response

\* a predictor with no model at all answered a request for which no
\* forecast exists
C4_Witness ==
    /\ pc = "FAILED"
    /\ models = {}
    /\ SneakerName = ""
    /\ ml_predictions = <<>>
    /\ prophet_prediction = None
    /\ response.success = FALSE

\* C10: a failure in a single signal-collection sub-step (regression,
\* time series, sentiment, trend, LLM) leaves that source absent or neutral
\* and the request still succeeds.
C10_SingleFailureTolerated ==
    (Returned /\ Cardinality(env) = 1) => response.success = TRUE

\* the stage of the request state machine the call is in
Stage(at) ==
    IF at \in {"COLLECTING_ML", "COLLECTING_PROPHET", "COLLECTING_SENTIMENT",
               "COLLECTING_TRENDS", "COLLECTING_LLM"}
    THEN "COLLECTING_SIGNALS"
    ELSE at

StageSteps ==
    {<<"READY", "PREPARING">>,
     <<"PREPARING", "COLLECTING_SIGNALS">>,
     <<"COLLECTING_SIGNALS", "COLLECTING_SIGNALS">>,
     <<"COLLECTING_SIGNALS", "FUSING">>,
     <<"FUSING", "CLASSIFYING">>,
     <<"CLASSIFYING", "DONE">>,
     <<"DONE", "READY">>,
     <<"FAILED", "READY">>}

\* no regression source and no fused forecast reached the fusion
NoPriceData == ml_predictions = <<>> /\ ~ProphetFused(prophet_prediction)

\* C11: every request passes through PREPARING, COLLECTING_SIGNALS, FUSING
\* and CLASSIFYING in that order and ends in DONE or FAILED; FAILED is entered
\* only from PREPARING, or at the fusion when no price-bearing model and no
\* forecast is there - never on a failure raised during signal collection,
\* fusion or classification.
C11_StageOrder ==
    [][/\ \/ <<Stage(pc), Stage(pc')>> \in StageSteps
          \/ pc' = "FAILED"
       /\ pc' = "FAILED" =>
              \/ pc = "PREPARING"
              \/ pc = "FUSING" /\ NoPriceData]_vars

\* a number field of the request holds a text that is no number
C12_Unparsable ==
    \/ "retail_price" \in DOMAIN data /\ data.retail_price.text
    \/ "shoe_size" \in DOMAIN data /\ data.shoe_size.text

C12_LacksField ==
    {"sneaker_name", "retail_price", "release_date", "shoe_size", "region"}
        \ DOMAIN data # {}

C12_NonPositivePrice ==
    /\ "retail_price" \in DOMAIN data
    /\ ~data.retail_price.text
    /\ data.retail_price.v <= 0

\* C12 as claimed: a request that is malformed, lacks a required field
\* (product name, retail_price, release_date, size, region) or has a
\* retail_price not greater than 0 fails, and no fusion is attempted for it.
C12_InvalidRequestRejected ==
    (Returned /\ (C12_Unparsable \/ C12_LacksField \/ C12_NonPositivePrice)) =>
        /\ response.success = FALSE
        /\ locals = None

\* C12 as amended: a request whose retail_price or shoe_size is no number
\* fails with an error and no fusion is attempted for it; a request that
\* lacks fields or has a retail_price not greater than 0 is not turned down:
\* a loaded predictor fails it only on an exception raised later, and a
\* missing retail_price is taken as 220.
C12_OnlyUnparsableRejected ==
    /\ (Returned /\ C12_Unparsable) =>
           /\ response.success = FALSE
           /\ "error" \in DOMAIN response
           /\ locals = None
           /\ ensemble_result = None
    /\ (pc = "FAILED" /\ loaded /\ ~C12_Unparsable) =>
           env # {} \/ FusionRaises(groq_analysis)
    /\ (pc = "DONE" /\ "retail_price" \notin DOMAIN data) =>
           /\ locals # None
           /\ response.prediction.price_change
                  = Round2(locals.final_price - 220 * 1000)

\* a request with a retail_price of 0 and no release_date, size or region
\* was fused and answered with success
C12_Witness ==
    /\ pc = "DONE"
    /\ C12_NonPositivePrice
    /\ C12_LacksField
    /\ locals # None
    /\ response.success = TRUE
    /\ response.prediction.price_change_percent = 0

\* the request was fused
Fused == pc \in {"CLASSIFYING", "DONE"}

\* C15: every sentiment factor applied in a fusion lies in [0.85, 1.15] and
\* every trend factor in [0.90, 1.10], whatever the raw signal values.
C15_FactorRanges ==
    Fused =>
        /\ sentiment.adjustment_factor >= 850
        /\ sentiment.adjustment_factor <= 1150
        /\ trends.adjustment_factor >= 900
        /\ trends.adjustment_factor <= 1100

\* C20: every response with success = false carries only error information:
\* no prediction (estimate, price range, price change, confidence) and no
\* recommendation.
C20_FailureCarriesOnlyError ==
    (response # None /\ response.success = FALSE) =>
        /\ DOMAIN response = {"success", "error"}
        /\ "prediction" \notin DOMAIN response
        /\ "recommendation" \notin DOMAIN response

\* a request failed at the fusion, after regression sources and a forecast
\* had been collected
C20_Witness ==
    /\ pc = "FAILED"
    /\ ml_predictions # <<>>
    /\ ProphetFused(prophet_prediction)
    /\ response.success = FALSE
    /\ "error" \in DOMAIN response

\* C21: when include_sentiment, include_trends or include_groq is false the
\* corresponding service is never invoked and that signal stays neutral
\* (factor 1.0, no LLM analysis); with all three false the final price is
\* the base estimate.
C21_DisabledSignalsNeutral ==
    /\ (flags # None /\ ~flags.include_sentiment) => "reddit" \notin fetched
    /\ (flags # None /\ ~flags.include_trends) => "google_trends" \notin fetched
    /\ (flags # None /\ ~flags.include_groq) => "groq" \notin fetched
    /\ Fused =>
          /\ ~flags.include_sentiment => sentiment.adjustment_factor = 1000
          /\ ~flags.include_trends => trends.adjustment_factor = 1000
          /\ ~flags.include_groq => groq_analysis = None
          /\ (~flags.include_sentiment /\ ~flags.include_trends
                 /\ ~flags.include_groq)
             => /\ locals.final_price = locals.ensemble_price
                /\ ensemble_result.best_predicted_price
                       = Round2(locals.ensemble_price)

\* a request with the three flags false was answered from the regression
\* models and the price history alone
C21_Witness ==
    /\ pc = "DONE"
    /\ ~flags.include_sentiment
    /\ ~flags.include_trends
    /\ ~flags.include_groq
    /\ fetched = {"price_history"}
    /\ ProphetFused(prophet_prediction)
    /\ response.success = TRUE
    /\ locals.final_price = locals.ensemble_price

\* C25: get_recommendation attaches the low-confidence note exactly when the
\* confidence is below 0.7, and the action and the risk tier are those of
\* the same percentage at every other confidence.
C25_NoteByConfidenceAlone ==
    RecReturned =>
        /\ (ret.confidence_note = "Low confidence - limited historical data")
              <=> call.confidence < 70
        /\ \A c \in RecConfidences :
              LET other == GetRecommendation(call.price_change_pct, c)
              IN  /\ other.action = ret.action
                  /\ other.risk_level = ret.risk_level
        /\ \A pct \in RecPercents :
              (GetRecommendation(pct, call.confidence).confidence_note
                  = ret.confidence_note)

\* a confidence of exactly 0.7 got no note, on a STRONG BUY
C25_Witness ==
    /\ RecReturned
    /\ call.confidence = 70
    /\ ret.confidence_note = ""
    /\ ret.action = "STRONG BUY"

(***************************************************************************)
(* Claims about get_predictor (SpecSingleton)                              *)
(***************************************************************************)
\* C27: under any interleaving of concurrent first requests
\* EnsemblePricePredictor is constructed at most once and every caller of
\* get_predictor receives the same instance.
C27_SingleInstance ==
    /\ instances <= 1
    /\ \A t, u \in DOMAIN threads :
          (threads[t].pc = "done" /\ threads[u].pc = "done")
              => threads[t].result = threads[u].result

(***************************************************************************)
(* Claims about the time-series source (SpecProphet)                       *)
(***************************************************************************)
ForecastReturned(op) == call.op = op /\ call.returned /\ ret # None

\* C23 as the claim states it: a forecast carries confidence 0.85 when the
\* history has at least 30 observations and 0.70 otherwise
C23_ConfidenceByHistorySize ==
    \A op \in {"predict_with_prophet", "get_time_series_forecast"} :
        ForecastReturned(op) =>
            ret.confidence = IF ret.historical_data_points >= 30 THEN 85 ELSE 70

\* C23 (amended): the forecast of the ensemble predictor enters the fusion
\* with confidence 0.85 and weight 0.20 whatever the size of the history, the
\* forecast of the social predictor carries 0.85 when the history has more
\* than 30 observations and 0.70 otherwise, and the 30-day point alone is a
\* fused candidate: the 7-day and 14-day points are reported, not averaged
C23_TimeSeriesSource ==
    /\ ForecastReturned("predict_with_prophet") =>
          /\ ret.confidence = 85
          /\ ret.weight = 20
    /\ ForecastReturned("get_time_series_forecast") =>
          ret.confidence = IF ret.historical_data_points > 30 THEN 85 ELSE 70
    /\ \A op \in {"predict_with_prophet", "get_time_series_forecast"} :
          ForecastReturned(op) =>
              /\ ret.predicted_price_7d = call.history_result.forecast[7].predicted_price
              /\ ret.predicted_price_14d = call.history_result.forecast[14].predicted_price
              /\ ret.predicted_price_30d = call.history_result.forecast[30].predicted_price
    /\ (locals # None /\ ProphetFused(ret)) =>
          /\ Len(locals.all_predictions) = 3
          /\ locals.all_predictions[3] =
                 [price |-> ret.predicted_price_30d, w |-> 20 * 85]
          /\ locals.total_weight =
                 locals.all_predictions[1].w + locals.all_predictions[2].w + 20 * 85

\* a forecast from a history of fewer than 30 observations has been fused
C23_Witness ==
    /\ locals # None
    /\ ProphetFused(ret)
    /\ ret.historical_data_points = 29
    /\ ret.predicted_price_7d # ret.predicted_price_30d

(***************************************************************************)
(* Claims about get_sentiment_adjustment (SpecSentiment)                   *)
(***************************************************************************)
SentimentReturned == call.op = "get_sentiment_adjustment" /\ ret # None

\* C26: with Reddit posts found, get_sentiment_adjustment returns the factor
\* 1 + 0.10 x overall sentiment with source 'reddit' and sample_size the
\* number of posts; the neutral default is returned only when no post is
\* found or the Reddit fetch fails.
C26_SentimentFromReddit ==
    SentimentReturned =>
        /\ (~call.reddit.raises /\ call.reddit.posts > 0) =>
              /\ ret.adjustment_factor = 1000 + call.reddit.overall_sentiment \div 10
              /\ ret.source = "reddit"
              /\ ret.sample_size = call.reddit.posts
        /\ ret = SentimentDefault =>
              (call.reddit.raises \/ call.reddit.posts = 0)

(***************************************************************************)
(* Claims about SocialPricePredictor.predict (SpecSocial)                  *)
(***************************************************************************)
SocialReturned == call.op = "predict" /\ ret # None /\ ret.success

\* C30: in every result the trend label is UP exactly when the action is
\* STRONG BUY, BUY, CONSIDER or HOLD, and DOWN exactly when it is CAUTION or
\* AVOID.
C30_LabelAgreesWithAction ==
    SocialReturned =>
        /\ ret.prediction.trend_label = "UP"
              <=> ret.recommendation.action \in {"STRONG BUY", "BUY", "CONSIDER", "HOLD"}
        /\ ret.prediction.trend_label = "DOWN"
              <=> ret.recommendation.action \in {"CAUTION", "AVOID"}

(***************************************************************************)
(* Claims about the batch endpoint (SpecBatch)                             *)
(***************************************************************************)
BatchAnswered == call.op = "predict_best_price_batch" /\ ret # None

\* the body carries a list of 1 to 20 items
BatchAccepted ==
    /\ call.body # None
    /\ Len(Sneakers) >= 1
    /\ Len(Sneakers) <= 20

\* what item i gives when predicted alone
AloneResult(i) ==
    PredictBestPriceQuick(Sneakers[i], ItemEnv(call.rf_raises_at = i))

\* C18: in an accepted batch each item is predicted independently: the
\* response holds one entry per item in input order, a failing item's entry
\* carries its own error, every other entry is what the item gives alone,
\* and the batch returns success.
C18_ItemsIsolated ==
    (BatchAnswered /\ BatchAccepted) =>
        /\ ret.status = 200
        /\ ret.success = TRUE
        /\ Len(ret.predictions) = Len(Sneakers)
        /\ \A i \in 1..Len(Sneakers) :
              IF AloneResult(i).success
              THEN /\ "error" \notin DOMAIN ret.predictions[i]
                   /\ ret.predictions[i].best_predicted_price
                          = AloneResult(i).prediction.best_predicted_price
              ELSE /\ "error" \in DOMAIN ret.predictions[i]
                   /\ ret.predictions[i].error = AloneResult(i).error

\* the loop was entered: get_predictor() was called and predictions run
BatchProcessed == call.op = "predict_best_price_batch" /\ locals # None

\* C19: a body with more than 20 items, or with an empty list, is rejected
\* before any prediction is run; every batch that is processed has between
\* 1 and 20 items.
C19_BatchSizeCapped ==
    /\ BatchProcessed => (Len(Sneakers) >= 1 /\ Len(Sneakers) <= 20)
    /\ (BatchAnswered /\ call.body # None
           /\ (Len(Sneakers) = 0 \/ Len(Sneakers) > 20)) =>
          /\ ret.status = 400
          /\ "error" \in DOMAIN ret
          /\ ~BatchProcessed

\* a list of 21 items was rejected with no prediction run
C19_Witness ==
    /\ BatchAnswered
    /\ Len(Sneakers) = 21
    /\ ret.status = 400
    /\ ~BatchProcessed

====
